---- MODULE Spec2Model ----
(***************************************************************************)
(* Verification model of the BestBuy UCP server's tool-calling pipeline:   *)
(*   - the Quota Gate        (app/services/rate_limiter.py)                *)
(*   - the Tool Orchestrator and Presentation Reducer                      *)
(*                           (app/services/chat_service.py)                *)
(*   - the Relevance Engine  (app/services/bestbuy_client.py)              *)
(* Time is counted in ticks of 0.05 s, the "tiny buffer" of the limiter.   *)
(***************************************************************************)
EXTENDS Integers, Sequences, FiniteSets, TLC

----------------------------------------------------------------------------
(* Bounds of the model                                                     *)

NumCallers == 2          \* concurrent callers of acquire()
MaxCalls == 5            \* acquire() calls started in one behaviour
MaxAdvance == 2          \* free time advances in one behaviour
requests_per_minute == 2 \* constructor argument of the limiter
requests_per_day == 3    \* constructor argument of the limiter

FirstSku == 100001       \* smallest catalogue identifier of the model
NumSkus == 10            \* catalogue identifiers FirstSku .. FirstSku+NumSkus-1
MaxRaw == 3              \* listings on the upstream page handed to the ranking
MaxResults == 2          \* largest max_results (page_size) of the model
MaxAlso == 4             \* items an alsoBought answer of the model may hold
MaxOps == 2              \* gateway operations invoked in one behaviour
MaxStores == 3           \* largest max_stores a caller asks for
MaxQuantity == 2         \* units one cart of the model may hold
MaxSessions == 2         \* checkout sessions created in one behaviour
MaxSequence == 2         \* order numbers the generator of the model may draw
MaxTicks == 1            \* clock advances of the shop in one behaviour
MaxRequests == 6         \* requests the shop serves in one behaviour
MaxPeerCalls == 4        \* acquire() calls of the products endpoint's client
MaxAsked == 2            \* largest quantity (either sign) a cart request names
NumChats == 3            \* chat requests served in one behaviour

----------------------------------------------------------------------------
(* Program constants of the Quota Gate, in ticks of 0.05 s                 *)

BUFFER == 1              \* 0.05 s
WINDOW == 1200           \* 60.0 s
DAY == 1728000           \* 86400 s

(* Program constants of the Tool Orchestrator and Presentation Reducer      *)

MAX_ROUNDS == 3          \* MAX_ROUNDS = 3
DisplayLimit == 8        \* deduped_products[:8]
FocusLimit == 2          \* list(dict.fromkeys(sku_matches))[:2]
MinSkuDigits == 6        \* \d{6,8}
MaxSkuDigits == 8        \* \d{6,8}

(* Program constants of the Catalog Gateway                                *)
AlsoBoughtEnough == 3    \* if len(results) >= 3
ComplementLimit == 6     \* results[:6]

Callers == 1..NumCallers
NoOne == 0

\* The time steps the environment may take between two program steps.
Deltas == {1, WINDOW - 1, DAY - WINDOW}

VARIABLES
    now,                 \* time.time()
    recent_requests,     \* deque of admission times, short window
    daily_requests,      \* deque of admission times since the daily reset
    daily_reset_time,    \* instant of the next daily reset
    lock,                \* holder of self.lock, NoOne when free
    waiters,             \* FIFO of callers blocked in "async with self.lock"
    pc,                  \* position of each caller inside acquire()
    wake,                \* deadline of each caller's asyncio.sleep
    admitted,            \* history: every timestamp recorded by acquire()
    appends,             \* history: <<short, daily>> appends of the current call
    ncalls,              \* acquire() calls started so far
    nadv                 \* free time advances so far

rlvars == <<now, recent_requests, daily_requests, daily_reset_time, lock,
            waiters, pc, wake, admitted, appends, ncalls, nadv>>

VARIABLES
    cpc,                 \* position inside process_message
    proactive_products,  \* proactive_products (pre-fetched before the model call)
    ai_message,          \* ai_message
    function_calls,      \* function_calls of the initial model response
    pending_calls,       \* pending_calls of the loop
    function_results,    \* function_results
    all_products,        \* all_products
    rounds,              \* rounds
    idx,                 \* index of the for-loop over the current calls
    round_results,       \* round_results of the current round
    display_products,    \* display_products
    response,            \* the value process_message returned
    model_calls,         \* history: gemini_client.chat invocations so far
    always_tools,        \* history: every model response requested a tool
    deduped_display,     \* history: display_products before SKU focus
    fetched,             \* history: outcome of each SKU-focus detail lookup
    updated_history,     \* updated_history
    contents,            \* contents of the latest gemini_client.chat request
    model_failed,        \* history: a gemini_client.chat call of this message raised
    rounds_log,          \* history: the tool requests and the results sent back, per round
    toolset,             \* input: the tools the model of this message asks for
    emitted              \* history: the tool requests of each model response

chatvars == <<cpc, proactive_products, ai_message, function_calls, pending_calls, function_results,
              all_products, rounds, idx, round_results, display_products,
              response, model_calls, always_tools, deduped_display, fetched,
              updated_history, contents, model_failed, rounds_log, toolset,
              emitted>>

VARIABLES
    rpc,                 \* position of the search_products call
    query,               \* query
    raw_result,          \* result: the upstream page before ranking
    max_results,         \* max_results
    ranked,              \* what _filter_and_rank_results returned
    reranked             \* what it returned when applied to its own output

rankvars == <<rpc, query, raw_result, max_results, ranked, reranked>>

VARIABLES
    gpc,                 \* position inside the gateway operation
    op,                  \* the gateway operation invoked and its arguments
    upstream_calls,      \* history: requests sent upstream by this invocation
    acquisitions,        \* history: rate_limiter.acquire() calls of this invocation
    op_result,           \* what the operation returned or raised
    also_bought,         \* also_bought
    comp_results,        \* results
    seen_skus,           \* seen_skus
    fallback_query,      \* fallback_query
    stores_list,         \* stores_list
    result_stores,       \* result_stores
    category_cache,      \* self._category_cache (its keys; a Category is fixed by its id)
    search_cache,        \* self._search_cache
    looked_up,           \* history: the category lookups that got an upstream answer
    nops                 \* gateway operations invoked so far

\* The locals of get_complementary_products and of get_store_availability.
compvars == <<also_bought, comp_results, seen_skus, fallback_query>>
storevars == <<stores_list, result_stores>>
\* The caches of the client and the history of its category lookups.
cachevars == <<category_cache, search_cache, looked_up>>

gatevars == <<gpc, op, upstream_calls, acquisitions, op_result, compvars, storevars,
              cachevars, nops>>

VARIABLES
    cart_items,          \* table cart_items: per user, the rows in insertion order
    checkout_sessions,   \* table checkout_sessions
    orders,              \* table orders, each order with its order_items
    utcnow,              \* datetime.utcnow(), in minutes
    http,                \* history: the latest request of the shop and its status
    nsessions,           \* checkout sessions created so far
    nticks               \* clock advances so far

shopvars == <<cart_items, checkout_sessions, orders, utcnow, http, nsessions, nticks>>

VARIABLES
    peer_requests,       \* recent_requests of the products endpoint's limiter
    peer_daily,          \* daily_requests of the products endpoint's limiter
    peer_reset,          \* daily_reset_time of the products endpoint's limiter
    peer_pc,             \* position of the products endpoint inside acquire()
    peer_wake,           \* deadline of the products endpoint's asyncio.sleep
    peer_admitted,       \* history: every timestamp that limiter recorded
    npeer                \* acquire() calls of the products endpoint so far

peervars == <<peer_requests, peer_daily, peer_reset, peer_pc, peer_wake,
              peer_admitted, npeer>>

VARIABLES
    conversations,         \* conversations: session_id -> the list stored for it
    heap,                  \* the list objects of the process, by identity
    tpc,                   \* position of each chat request inside chat()
    request_session,       \* session_id of each chat request
    held_history           \* conversation_history of each chat request, by identity

talkvars == <<conversations, heap, tpc, request_session, held_history>>

\* The state outside the five components above.
extvars == <<peervars, talkvars>>

vars == <<rlvars, chatvars, rankvars, gatevars, shopvars, extvars>>

\* What each component leaves alone.
notQuota == <<chatvars, rankvars, gatevars, shopvars, extvars>>
notChat == <<rlvars, rankvars, gatevars, shopvars, extvars>>
notRank == <<rlvars, chatvars, gatevars, shopvars, extvars>>
notGate == <<rlvars, chatvars, rankvars, shopvars, extvars>>
notShop == <<rlvars, chatvars, rankvars, gatevars, extvars>>
\* What a tool execution of process_message leaves alone besides the cart.
notChatCart == <<rlvars, rankvars, gatevars, checkout_sessions, orders, utcnow, http,
                 nsessions, nticks, extvars>>

----------------------------------------------------------------------------
(* Quota Gate                                                              *)

RECURSIVE Evict(_, _)
\* while self.recent_requests and current_time - self.recent_requests[0] >= WINDOW: popleft()
Evict(q, t) ==
    IF q # <<>> /\ t - Head(q) >= WINDOW THEN Evict(Tail(q), t) ELSE q

\* if len(self.recent_requests) >= self.requests_per_minute
AtCapacityOffByOne(q) == Len(q) > requests_per_minute
AtCapacity(q) == Len(q) >= requests_per_minute

\* if len(self.daily_requests) >= self.requests_per_day
DailyFullOffByOne(d) == Len(d) > requests_per_day
DailyFull(d) == Len(d) >= requests_per_day

\* wait_time = WINDOW - (current_time - oldest) + 0.05
MinuteWait(ct, oldest) == WINDOW - (ct - oldest) + BUFFER

\* Record this request (and leave the "async with" block).
Record(p, ct, q, d, r) ==
    /\ recent_requests' = Append(q, ct)
    /\ daily_requests' = Append(d, ct)
    /\ daily_reset_time' = r
    /\ admitted' = Append(admitted, ct)
    /\ appends' = [appends EXCEPT ![p] = <<appends[p][1] + 1, appends[p][2] + 1>>]
    /\ lock' = NoOne
    /\ pc' = [pc EXCEPT ![p] = "idle"]
    /\ wake' = [wake EXCEPT ![p] = 0]

\* The per-minute stage up to its await (or to the end of acquire).
MinuteStage(p, ct, d, r) ==
    LET q == Evict(recent_requests, ct) IN
    IF AtCapacity(q)
    THEN IF q = <<>>
         THEN \* self.recent_requests[0] on an empty deque: IndexError
              /\ pc' = [pc EXCEPT ![p] = "error"]
              /\ lock' = NoOne
              /\ recent_requests' = q
              /\ daily_requests' = d
              /\ daily_reset_time' = r
              /\ UNCHANGED <<wake, admitted, appends>>
         ELSE /\ pc' = [pc EXCEPT ![p] = "sleep_min"]
              /\ wake' = [wake EXCEPT ![p] = ct + MinuteWait(ct, Head(q))]
              /\ lock' = p
              /\ recent_requests' = q
              /\ daily_requests' = d
              /\ daily_reset_time' = r
              /\ UNCHANGED <<admitted, appends>>
    ELSE Record(p, ct, q, d, r)

\* Daily limit reached: sleep until the reset instant, holding the lock.
DailyWaitRejects(p, ct, d, r) ==
    /\ pc' = [pc EXCEPT ![p] = "error"]
    /\ lock' = NoOne
    /\ daily_requests' = d
    /\ daily_reset_time' = r
    /\ UNCHANGED <<wake, recent_requests, admitted, appends>>
DailyWait(p, ct, d, r) ==
    /\ pc' = [pc EXCEPT ![p] = "sleep_day"]
    /\ wake' = [wake EXCEPT ![p] = ct + (r - ct)]
    /\ lock' = p
    /\ daily_requests' = d
    /\ daily_reset_time' = r
    /\ UNCHANGED <<recent_requests, admitted, appends>>

\* "async with self.lock" admits a caller only while nobody holds the lock.
LockIgnored == TRUE
LockFree == lock = NoOne

\* A caller enters acquire() and queues on the lock.
Call(p) ==
    /\ pc[p] = "idle"
    /\ ncalls < MaxCalls
    /\ pc' = [pc EXCEPT ![p] = "waiting"]
    /\ waiters' = Append(waiters, p)
    /\ appends' = [appends EXCEPT ![p] = <<0, 0>>]
    /\ ncalls' = ncalls + 1
    /\ UNCHANGED <<now, recent_requests, daily_requests, daily_reset_time,
                   lock, wake, admitted, nadv>>
    /\ UNCHANGED notQuota

\* The caller obtains the lock and runs to its first await or to the end.
Enter(p) ==
    /\ pc[p] = "waiting"
    /\ LockFree
    /\ waiters # <<>> /\ Head(waiters) = p
    /\ waiters' = Tail(waiters)
    /\ LET ct == now
           reset == ct >= daily_reset_time
           d == IF reset THEN <<>> ELSE daily_requests
           r == IF reset THEN ct + DAY ELSE daily_reset_time
       IN IF DailyFull(d)
          THEN DailyWait(p, ct, d, r)
          ELSE MinuteStage(p, ct, d, r)
    /\ UNCHANGED <<now, ncalls, nadv>>
    /\ UNCHANGED notQuota

\* Return of the daily-limit sleep.
WakeDay(p) ==
    /\ pc[p] = "sleep_day"
    /\ now >= wake[p]
    /\ MinuteStage(p, now, <<>>, now + DAY)
    /\ UNCHANGED <<now, waiters, ncalls, nadv>>
    /\ UNCHANGED notQuota

\* Return of the per-minute sleep.
WakeMin(p) ==
    /\ pc[p] = "sleep_min"
    /\ now >= wake[p]
    /\ Record(p, now, Evict(recent_requests, now), daily_requests, daily_reset_time)
    /\ UNCHANGED <<now, waiters, ncalls, nadv>>
    /\ UNCHANGED notQuota

\* get_stats(): evicts expired entries of the short window, takes no lock.
GetStats ==
    /\ recent_requests' = Evict(recent_requests, now)
    /\ UNCHANGED <<now, daily_requests, daily_reset_time, lock, waiters, pc,
                   wake, admitted, appends, ncalls, nadv>>
    /\ UNCHANGED notQuota

\* Time passes up to the deadline of a pending sleep.
TimerFires ==
    /\ \E p \in Callers :
          /\ pc[p] \in {"sleep_day", "sleep_min"}
          /\ now < wake[p]
          /\ now' = wake[p]
    /\ UNCHANGED <<recent_requests, daily_requests, daily_reset_time, lock,
                   waiters, pc, wake, admitted, appends, ncalls, nadv>>
    /\ UNCHANGED notQuota

\* Time passes freely.
Advance(d) ==
    /\ nadv < MaxAdvance
    /\ now' = now + d
    /\ nadv' = nadv + 1
    /\ UNCHANGED <<recent_requests, daily_requests, daily_reset_time, lock,
                   waiters, pc, wake, admitted, appends, ncalls>>
    /\ UNCHANGED notQuota

----------------------------------------------------------------------------
(* The second BestBuyAPIClient of the process: app/api/products.py builds  *)
(* its own client, and every client builds its own RateLimiter             *)

\* Record this request in the products endpoint's limiter.
PeerRecord(ct, q, d, r) ==
    /\ peer_requests' = Append(q, ct)
    /\ peer_daily' = Append(d, ct)
    /\ peer_reset' = r
    /\ peer_admitted' = Append(peer_admitted, ct)
    /\ peer_pc' = "idle"
    /\ peer_wake' = 0

\* acquire() of the products endpoint's limiter up to its first await or to
\* the end; the endpoint's requests pass through it one at a time.
PeerEnter ==
    /\ peer_pc = "idle"
    /\ npeer < MaxPeerCalls
    /\ npeer' = npeer + 1
    /\ LET ct == now
           reset == ct >= peer_reset
           d == IF reset THEN <<>> ELSE peer_daily
           r == IF reset THEN ct + DAY ELSE peer_reset
           q == Evict(peer_requests, ct)
       IN IF DailyFull(d)
          THEN /\ peer_pc' = "sleep_day"
               /\ peer_wake' = ct + (r - ct)
               /\ peer_daily' = d
               /\ peer_reset' = r
               /\ UNCHANGED <<peer_requests, peer_admitted>>
          ELSE IF AtCapacity(q)
               THEN /\ peer_pc' = "sleep_min"
                    /\ peer_wake' = ct + MinuteWait(ct, Head(q))
                    /\ peer_requests' = q
                    /\ peer_daily' = d
                    /\ peer_reset' = r
                    /\ UNCHANGED peer_admitted
               ELSE PeerRecord(ct, q, d, r)
    /\ UNCHANGED <<rlvars, chatvars, rankvars, gatevars, shopvars, talkvars>>

\* Return of the products endpoint's daily-limit sleep.
PeerWakeDay ==
    /\ peer_pc = "sleep_day"
    /\ now >= peer_wake
    /\ LET q == Evict(peer_requests, now) IN
       IF AtCapacity(q)
       THEN /\ peer_pc' = "sleep_min"
            /\ peer_wake' = now + MinuteWait(now, Head(q))
            /\ peer_requests' = q
            /\ peer_daily' = <<>>
            /\ peer_reset' = now + DAY
            /\ UNCHANGED peer_admitted
       ELSE PeerRecord(now, q, <<>>, now + DAY)
    /\ UNCHANGED npeer
    /\ UNCHANGED <<rlvars, chatvars, rankvars, gatevars, shopvars, talkvars>>

\* Return of the products endpoint's per-minute sleep.
PeerWakeMin ==
    /\ peer_pc = "sleep_min"
    /\ now >= peer_wake
    /\ PeerRecord(now, Evict(peer_requests, now), peer_daily, peer_reset)
    /\ UNCHANGED npeer
    /\ UNCHANGED <<rlvars, chatvars, rankvars, gatevars, shopvars, talkvars>>

\* Time passes up to the deadline of the products endpoint's sleep.
PeerTimerFires ==
    /\ peer_pc \in {"sleep_day", "sleep_min"}
    /\ now < peer_wake
    /\ now' = peer_wake
    /\ UNCHANGED <<recent_requests, daily_requests, daily_reset_time, lock,
                   waiters, pc, wake, admitted, appends, ncalls, nadv>>
    /\ UNCHANGED notQuota

PeerIdle ==
    /\ peer_requests = <<>>
    /\ peer_daily = <<>>
    /\ peer_reset = 0 + DAY
    /\ peer_pc = "idle"
    /\ peer_wake = 0
    /\ peer_admitted = <<>>
    /\ npeer = 0

----------------------------------------------------------------------------
(* Text: characters, str(), int() and the SKU-mention regular expression   *)

Min(a, b) == IF a < b THEN a ELSE b

Ch(s, i) == SubSeq(s, i, i)
CharIn(c, str) == \E k \in 1..Len(str) : Ch(str, k) = c
IsDigit(c) == CharIn(c, "0123456789")
\* \w of the re module, for ASCII text
IsWordChar(c) ==
    CharIn(c, "abcdefghijklmnopqrstuvwxyzABCDEFGHIJKLMNOPQRSTUVWXYZ0123456789_")
\* [:\s#]
IsSkuSep(c) == c \in {":", " ", "#", "\t", "\n"}
\* SKU under re.IGNORECASE
IsSkuWord(t) ==
    /\ Len(t) = 3
    /\ Ch(t, 1) \in {"s", "S"}
    /\ Ch(t, 2) \in {"k", "K"}
    /\ Ch(t, 3) \in {"u", "U"}

RECURSIVE SepRun(_, _)
SepRun(s, i) ==
    IF i <= Len(s) /\ IsSkuSep(Ch(s, i)) THEN 1 + SepRun(s, i + 1) ELSE 0

RECURSIVE DigitRun(_, _)
DigitRun(s, i) ==
    IF i <= Len(s) /\ IsDigit(Ch(s, i)) THEN 1 + DigitRun(s, i + 1) ELSE 0

\* Where the digits of a match of \bSKU[:\s#]+(\d{6,8})\b beginning at i start
\* and how many they are; <<0, 0>> when there is no match at i.
SkuMatchAt(s, i) ==
    LET j == i + 3
        k == SepRun(s, j)
        d == j + k
        n == DigitRun(s, d)
    IN IF /\ i + 2 <= Len(s)
          /\ (i = 1 \/ ~IsWordChar(Ch(s, i - 1)))
          /\ IsSkuWord(SubSeq(s, i, i + 2))
          /\ k >= 1
          /\ n >= MinSkuDigits /\ n <= MaxSkuDigits
          /\ (d + n > Len(s) \/ ~IsWordChar(Ch(s, d + n)))
       THEN <<d, n>>
       ELSE <<0, 0>>

RECURSIVE FindSkus(_, _)
\* re.findall(r'\bSKU[:\s#]+(\d{6,8})\b', text, re.IGNORECASE), scanning from i
FindSkus(s, i) ==
    IF i > Len(s) THEN <<>>
    ELSE LET m == SkuMatchAt(s, i)
         IN IF m[1] > 0
            THEN <<SubSeq(s, m[1], m[1] + m[2] - 1)>> \o FindSkus(s, m[1] + m[2])
            ELSE FindSkus(s, i + 1)

\* re.findall(r'\bSKU[:\s#]+(\d{6,8})\b', text, re.IGNORECASE)
FindAllSkus(text) == FindSkus(text, 1)

RECURSIVE DistinctFrom(_, _)
DistinctFrom(xs, seen) ==
    IF xs = <<>> THEN <<>>
    ELSE IF Head(xs) \in seen
         THEN DistinctFrom(Tail(xs), seen)
         ELSE <<Head(xs)>> \o DistinctFrom(Tail(xs), seen \cup {Head(xs)})

\* list(dict.fromkeys(xs))
Distinct(xs) == DistinctFrom(xs, {})

\* xs[:n]
Take(xs, n) == SubSeq(xs, 1, Min(n, Len(xs)))

RECURSIVE ToStr(_)
\* str(n) of a non-negative int
ToStr(n) ==
    IF n < 10 THEN Ch("0123456789", n + 1)
    ELSE ToStr(n \div 10) \o Ch("0123456789", (n % 10) + 1)

DigitValue(c) == CHOOSE v \in 0..9 : Ch("0123456789", v + 1) = c

RECURSIVE ParseInt(_)
\* the int a string of digits denotes (the sku the catalogue answers with)
ParseInt(str) ==
    IF Len(str) = 0 THEN 0
    ELSE 10 * ParseInt(SubSeq(str, 1, Len(str) - 1)) + DigitValue(Ch(str, Len(str)))

----------------------------------------------------------------------------
(* Tool Orchestrator and Presentation Reducer: the environment             *)

Skus == FirstSku..(FirstSku + NumSkus - 1)

\* A product dict; "via" stands for the fields that tell apart the dicts
\* that different tools build for the same sku.
Product(sku, via) == [sku |-> sku, via |-> via]


\* The texts a model response may carry.
Texts == {
    "",
    "Here are some options.",
    "I recommend this one (SKU: 100003).",
    "The best rated is SKU 100020.",
    "Compare SKU: 100001 with sku #100002.",
    "SKU: 100001, SKU: 100002 and SKU: 100003 all fit.",
    "MYSKU: 100001 or SKU: 12345 or SKU: 123456789" }

\* except Exception as e: ai_message = "I found the product information, but ..."
LoopErrorText == "I found the product information, but encountered an error generating the response: error"
\* "Sorry, I encountered an error processing your request."
SorryText == "Sorry, I encountered an error processing your request."
\* Python's None where a text is expected
PyNone == "<None>"

\* The texts a model response that requests tools may carry.
ToolTexts == {"", "I recommend this one (SKU: 100003)."}

\* Every text ai_message can hold.
AllTexts == Texts \cup {LoopErrorText, SorryText}

\* sku_matches, tabulated over the texts of the model
SkuMatchTable == [t \in AllTexts |-> FindAllSkus(t)]
sku_matches(text) == SkuMatchTable[text]

\* Every sku a product dict of the model can carry.
KnownSkus ==
    Skus \cup UNION {{ParseInt(SkuMatchTable[t][k]) : k \in DOMAIN SkuMatchTable[t]} :
                     t \in AllTexts}

\* str(), tabulated over the skus of the model
StrTable == [n \in KnownSkus |-> ToStr(n)]

\* str(p.get("sku", ""))
SkuStr(p) == StrTable[p.sku]

ToolCall(name, arguments) == [name |-> name, arguments |-> arguments]

\* The tool-request lists a model response may carry.
CallLists == {
    <<>>,
    <<ToolCall("get_product_details", "100003")>>,
    <<ToolCall("search_products", "q1"), ToolCall("search_products", "q2")>>,
    <<ToolCall("get_product_recommendations", "100003")>> }

\* A request of a cart tool: the sku and the quantity argument.
CartCall(name, sku, quantity) == [name |-> name, arguments |-> sku, quantity |-> quantity]

\* The models a message may meet: one that looks things up in the catalogue,
\* one that manages the cart.
Toolsets == {"catalogue", "cart"}

CartTools == {"add_to_cart", "remove_from_cart", "update_cart_quantity"}

\* The tool-request lists of a model that manages the cart.
CartCallLists == {
    <<>>,
    <<CartCall("add_to_cart", "6525431", 2), ToolCall("get_product_details", "100003")>>,
    <<CartCall("update_cart_quantity", "6525431", 1)>>,
    <<ToolCall("remove_from_cart", "6525431")>> }

Responses ==
    [message : Texts, function_calls : {<<>>}]
        \cup [message : ToolTexts,
              function_calls : (IF toolset = "cart" THEN CartCallLists ELSE CallLists) \ {<<>>}]

\* What the catalogue lists for a query.
SearchResult(q) ==
    IF q = "q1"
    THEN [k \in 1..Min(5, NumSkus) |-> Product(FirstSku + k - 1, "search_products")]
    ELSE [k \in 1..(NumSkus - 3) |-> Product(FirstSku + 2 + k, "search_products")]

\* What get_recommendations answers with.
Recommended ==
    <<Product(FirstSku, "get_product_recommendations"),
      Product(FirstSku + 1, "get_product_recommendations")>>

ErrorResult == [success |-> FALSE, kind |-> "error", products |-> <<>>]
\* the {} default of next(..., {})
EmptyResult == [success |-> FALSE, kind |-> "empty", products |-> <<>>]

\* The results execute_function can return for a call (it never raises);
\* "kind" is the key the result carries its products under.
ExecOutcomes(call) ==
    IF call.name = "search_products"
    THEN {[success |-> TRUE, kind |-> "products", products |-> SearchResult(call.arguments)],
          ErrorResult}
    ELSE IF call.name = "get_product_recommendations"
    THEN {[success |-> TRUE, kind |-> "recommendations", products |-> Recommended],
          ErrorResult}
    ELSE {[success |-> TRUE, kind |-> "product",
           products |-> <<Product(ParseInt(call.arguments), "get_product_details")>>],
          ErrorResult}

\* user_id of the message
ChatUser == "guest_a"

\* product.sale_price or product.regular_price or 0.0
ToolPrice == 10

\* First row of the user's cart with this sku (query.filter(...).first()), 0 if none.
FirstRow(rows, sku) ==
    IF \E i \in DOMAIN rows : rows[i].sku = sku
    THEN CHOOSE i \in DOMAIN rows :
            rows[i].sku = sku /\ \A j \in 1..(i - 1) : rows[j].sku # sku
    ELSE 0

\* The rows without the i-th.
DeleteRow(rows, i) == SubSeq(rows, 1, i - 1) \o SubSeq(rows, i + 1, Len(rows))

\* CartService.add_item: existing.quantity += item.quantity, or a new row.
add_item(rows, item) ==
    LET existing == FirstRow(rows, item.sku)
    IN IF existing # 0
       THEN [rows EXCEPT ![existing].quantity = @ + item.quantity]
       ELSE Append(rows, item)

\* CartService.update_quantity on a cart that holds the sku.
update_quantity(rows, sku, quantity) ==
    LET item == FirstRow(rows, sku)
    IN IF quantity <= 0
       THEN DeleteRow(rows, item)
       ELSE [rows EXCEPT ![item].quantity = quantity]

\* CartService.remove_item on a cart that holds the sku.
remove_item(rows, sku) == DeleteRow(rows, FirstRow(rows, sku))

CartDone == [success |-> TRUE, kind |-> "cart", products |-> <<>>]
\* {"success": removed, ...} with removed = False
NotInCart == [success |-> FALSE, kind |-> "cart", products |-> <<>>]

\* The cart rows after a cart tool has succeeded.
NoCartEffect(call, rows) == rows
CartEffect(call, rows) ==
    IF call.name = "add_to_cart"
    THEN add_item(rows, [sku |-> call.arguments, price |-> ToolPrice,
                         quantity |-> call.quantity])
    ELSE IF call.name = "update_cart_quantity"
    THEN update_quantity(rows, call.arguments, call.quantity)
    ELSE remove_item(rows, call.arguments)

\* What executing a call can do: the result execute_function returns and the
\* rows of the user's cart afterwards.  A cart tool fails when the product
\* lookup or the database does, update_cart_quantity also when the cart
\* lacks the sku; remove_from_cart then reports success False.
ToolRuns(call, rows) ==
    IF call.name \in CartTools
    THEN {[result |-> ErrorResult, rows |-> rows]} \cup
         (IF call.name = "add_to_cart" \/ FirstRow(rows, call.arguments) # 0
          THEN {[result |-> CartDone, rows |-> CartEffect(call, rows)]}
          ELSE IF call.name = "remove_from_cart"
          THEN {[result |-> NotInCart, rows |-> rows]}
          ELSE {})
    ELSE {[result |-> r, rows |-> rows] : r \in ExecOutcomes(call)}

\* The products the caller collects from a result.
Collected(result) ==
    IF result.success /\ result.kind \in {"products", "product"}
    THEN result.products
    ELSE <<>>

\* The pre-fetched complementary products the loop may be seeded with.
ProactiveChoices ==
    {<<>>,
     <<Product(FirstSku + 1, "get_complementary_products"),
       Product(FirstSku + NumSkus - 1, "get_complementary_products")>>}

NoResponse == [kind |-> "none", message |-> "", function_calls |-> <<>>,
               function_results |-> <<>>, products |-> <<>>]
ErrorResponse == [kind |-> "error", message |-> SorryText, function_calls |-> <<>>,
                  function_results |-> <<>>, products |-> <<>>]

----------------------------------------------------------------------------
(* Tool Orchestrator and Presentation Reducer: process_message             *)

\* if rounds > 1: the first round's requests were executed before the loop
ExecutesInEveryRound(r) == r >= 1
ExecutesInRound(r) == r > 1

\* while pending_calls and rounds < MAX_ROUNDS
LoopContinuesOffByOne(pending, r) == pending # <<>> /\ r <= MAX_ROUNDS
LoopContinues(pending, r) == pending # <<>> /\ r < MAX_ROUNDS

RECURSIVE DedupeFrom(_, _)
DedupeFrom(ps, seen) ==
    IF ps = <<>> THEN <<>>
    ELSE LET sku == SkuStr(Head(ps))
         IN IF sku # "" /\ sku \notin seen
            THEN <<Head(ps)>> \o DedupeFrom(Tail(ps), seen \cup {sku})
            ELSE DedupeFrom(Tail(ps), seen)

\* Deduplicate products by SKU and limit to 8
DedupeKeepsRepeats(ps) == Take(SelectSeq(ps, LAMBDA p : SkuStr(p) # ""), DisplayLimit)
Dedupe(ps) == Take(DedupeFrom(ps, {}), DisplayLimit)

\* next((fr["result"] for fr in function_results if fr["function"] == name), {})
FirstResultFor(name) ==
    LET hits == SelectSeq(function_results, LAMBDA fr : fr.function = name)
    IN IF hits = <<>> THEN EmptyResult ELSE hits[1].result

\* ParseInt, tabulated over the sku strings the texts of the model carry
IntTable ==
    [s \in UNION {{SkuMatchTable[t][k] : k \in DOMAIN SkuMatchTable[t]} : t \in AllTexts}
        |-> ParseInt(s)]

\* The product of display_products stored under a sku string, if any.
Existing(display, sku) == SelectSeq(display, LAMBDA p : SkuStr(p) = sku)

RECURSIVE FocusedFrom(_, _, _, _)
\* for sku in unique_skus: cached product, else the fetched one, else nothing
FocusedFrom(unique, k, display, outcome) ==
    IF k > Len(unique) THEN <<>>
    ELSE LET hits == Existing(display, unique[k])
             one == IF hits # <<>>
                    THEN <<hits[Len(hits)]>>
                    ELSE IF outcome[k] = "found"
                         THEN <<Product(IntTable[unique[k]], "get_product_by_sku")>>
                         ELSE <<>>
         IN one \o FocusedFrom(unique, k + 1, display, outcome)

\* if focused: display_products = focused
FocusAlways(display, focused) == focused
FocusReplace(display, focused) == IF focused # <<>> THEN focused ELSE display

\* A message of conversation_history.
Message(role, content) == [role |-> role, content |-> content]

\* The conversation before this message, and the user's message.
PriorHistory == <<Message("user", "earlier question"), Message("assistant", "earlier answer")>>
UserMessage == "current question"

\* One entry of the request's "contents": a role and its parts.
Content(role, text, functionCalls, functionResponses) ==
    [role |-> role, text |-> text, functionCalls |-> functionCalls,
     functionResponses |-> functionResponses]

\* The "contents" gemini_client.chat builds: the history as text turns, then
\* the function responses as one user turn, then the current message.  No
\* entry carries a functionCall part.
Contents(conversation_history, function_responses, message) ==
    [i \in DOMAIN conversation_history |->
        Content(IF conversation_history[i].role = "user" THEN "user" ELSE "model",
                conversation_history[i].content, <<>>, <<>>)]
    \o (IF function_responses # <<>>
        THEN <<Content("user", "", <<>>, function_responses)>>
        ELSE <<>>)
    \o (IF message # "" THEN <<Content("user", message, <<>>, <<>>)>> ELSE <<>>)

\* pending_calls = next_response.get("function_calls", [])
NextPendingSticky(r, pending) ==
    IF r.function_calls = <<>> THEN pending ELSE r.function_calls
NextPending(r, pending) == r.function_calls

\* The initial model call.
ModelInitial ==
    /\ cpc = "start"
    /\ model_calls' = model_calls + 1
    /\ contents' = Contents(PriorHistory, <<>>, UserMessage)
    /\ \/ \* gemini_client.chat raises: the outer handler answers
          /\ response' = ErrorResponse
          /\ cpc' = "done"
          /\ model_failed' = TRUE
          /\ UNCHANGED emitted
          /\ UNCHANGED <<ai_message, function_calls, function_results,
                         all_products, idx, always_tools>>
       \/ \E r \in Responses :
             /\ UNCHANGED model_failed
             /\ emitted' = <<r.function_calls>>
             /\ ai_message' = r.message
             /\ function_calls' = r.function_calls
             /\ function_results' = <<>>
             /\ all_products' = proactive_products
             /\ idx' = 1
             /\ always_tools' = (r.function_calls # <<>>)
             /\ cpc' = "exec"
             /\ UNCHANGED response
    /\ UNCHANGED <<proactive_products, pending_calls, rounds, round_results,
                   display_products, deduped_display, fetched, updated_history,
                   rounds_log>>
    /\ UNCHANGED <<toolset, notChat>>

\* One iteration of "for func_call in function_calls" before the loop.
ExecFirst ==
    /\ cpc = "exec"
    /\ idx <= Len(function_calls)
    /\ \E run \in ToolRuns(function_calls[idx], cart_items[ChatUser]) :
          /\ function_results' =
                Append(function_results,
                       [function |-> function_calls[idx].name, result |-> run.result])
          /\ all_products' = all_products \o Collected(run.result)
          /\ cart_items' = [cart_items EXCEPT ![ChatUser] = run.rows]
    /\ idx' = idx + 1
    /\ UNCHANGED <<cpc, proactive_products, ai_message, function_calls,
                   pending_calls, rounds, round_results, display_products,
                   response, model_calls, always_tools, deduped_display, fetched,
                   updated_history, contents, model_failed, rounds_log>>
    /\ UNCHANGED <<toolset, emitted, notChatCart>>

\* if function_calls: ... pending_calls = function_calls
EnterLoop ==
    /\ cpc = "exec"
    /\ idx > Len(function_calls)
    /\ IF function_calls # <<>>
       THEN /\ updated_history' =
                  PriorHistory \o <<Message("user", UserMessage),
                                    Message("assistant", ai_message)>>
            /\ rounds' = 0
            /\ pending_calls' = function_calls
            /\ cpc' = "loop"
       ELSE /\ cpc' = "reduce"
            /\ UNCHANGED <<rounds, pending_calls, updated_history>>
    /\ UNCHANGED <<proactive_products, ai_message, function_calls,
                   function_results, all_products, idx, round_results,
                   display_products, response, model_calls, always_tools,
                   deduped_display, fetched, contents, model_failed, rounds_log>>
    /\ UNCHANGED <<toolset, emitted, notChat>>

\* The loop condition, and the head of a round.
LoopTop ==
    /\ cpc = "loop"
    /\ IF LoopContinues(pending_calls, rounds)
       THEN /\ rounds' = rounds + 1
            /\ round_results' = <<>>
            /\ idx' = 1
            /\ cpc' = "round"
       ELSE /\ cpc' = "reduce"
            /\ UNCHANGED <<rounds, round_results, idx>>
    /\ UNCHANGED <<proactive_products, ai_message, function_calls,
                   pending_calls, function_results, all_products,
                   display_products, response, model_calls, always_tools,
                   deduped_display, fetched, updated_history, contents, model_failed, rounds_log>>
    /\ UNCHANGED <<toolset, emitted, notChat>>

\* One iteration of "for func_call in pending_calls" inside a round.
RoundExec ==
    /\ cpc = "round"
    /\ idx <= Len(pending_calls)
    /\ LET call == pending_calls[idx] IN
       IF ExecutesInRound(rounds)
       THEN \E run \in ToolRuns(call, cart_items[ChatUser]) :
               /\ function_results' =
                     Append(function_results, [function |-> call.name, result |-> run.result])
               /\ all_products' = all_products \o Collected(run.result)
               /\ round_results' =
                     Append(round_results, [name |-> call.name, response |-> run.result])
               /\ cart_items' = [cart_items EXCEPT ![ChatUser] = run.rows]
       ELSE /\ round_results' =
                  Append(round_results,
                         [name |-> call.name, response |-> FirstResultFor(call.name)])
            /\ UNCHANGED <<function_results, all_products, cart_items>>
    /\ idx' = idx + 1
    /\ UNCHANGED <<cpc, proactive_products, ai_message, function_calls,
                   pending_calls, rounds, display_products, response,
                   model_calls, always_tools, deduped_display, fetched,
                   updated_history, contents, model_failed, rounds_log>>
    /\ UNCHANGED <<toolset, emitted, notChatCart>>

\* The round's results go back to the model.
RoundModel ==
    /\ cpc = "round"
    /\ idx > Len(pending_calls)
    /\ model_calls' = model_calls + 1
    /\ contents' = Contents(updated_history, round_results, "")
    /\ rounds_log' = Append(rounds_log, [tool_requests |-> pending_calls,
                                         tool_results |-> round_results])
    /\ \/ \* gemini_client.chat raises: the handler of the loop answers
          /\ ai_message' = LoopErrorText
          /\ cpc' = "reduce"
          /\ model_failed' = TRUE
          /\ UNCHANGED emitted
          /\ UNCHANGED <<pending_calls, always_tools>>
       \/ \E r \in Responses :
             /\ UNCHANGED model_failed
             /\ emitted' = Append(emitted, r.function_calls)
             /\ ai_message' = r.message
             /\ pending_calls' = NextPending(r, pending_calls)
             /\ always_tools' = (always_tools /\ r.function_calls # <<>>)
             /\ cpc' = "loop"
    /\ UNCHANGED <<proactive_products, function_calls, function_results,
                   all_products, rounds, idx, round_results, display_products,
                   response, deduped_display, fetched, updated_history>>
    /\ UNCHANGED <<toolset, notChat>>

\* Deduplicate products by SKU and limit to 8.
Reduce ==
    /\ cpc = "reduce"
    /\ display_products' = Dedupe(all_products)
    /\ deduped_display' = Dedupe(all_products)
    /\ cpc' = "focus"
    /\ UNCHANGED <<proactive_products, ai_message, function_calls,
                   pending_calls, function_results, all_products, rounds, idx,
                   round_results, response, model_calls, always_tools, fetched,
                   updated_history, contents, model_failed, rounds_log>>
    /\ UNCHANGED <<toolset, emitted, notChat>>

\* SKU focus, then the return of process_message.
Focus ==
    /\ cpc = "focus"
    /\ LET unique_skus == Take(Distinct(sku_matches(ai_message)), FocusLimit)
           cached(k) == Existing(display_products, unique_skus[k]) # <<>>
       IN \E outcome \in [1..Len(unique_skus) -> {"cached", "found", "none", "raise"}] :
             /\ \A k \in 1..Len(unique_skus) : (outcome[k] = "cached") <=> cached(k)
             /\ fetched' = outcome
             /\ display_products' =
                   IF ai_message # "" /\ unique_skus # <<>>
                   THEN FocusReplace(display_products,
                                     FocusedFrom(unique_skus, 1, display_products, outcome))
                   ELSE display_products
    /\ response' =
          [kind |-> "ok",
           message |-> ai_message,
           function_calls |->
               IF function_calls # <<>> /\ ai_message # "" THEN <<>> ELSE function_calls,
           function_results |-> function_results,
           products |-> display_products']
    /\ cpc' = "done"
    /\ UNCHANGED <<proactive_products, ai_message, function_calls,
                   pending_calls, function_results, all_products, rounds, idx,
                   round_results, model_calls, always_tools, deduped_display,
                   updated_history, contents, model_failed, rounds_log>>
    /\ UNCHANGED <<toolset, emitted, notChat>>

ChatInit ==
    /\ cpc = "start"
    /\ proactive_products \in ProactiveChoices
    /\ ai_message = ""
    /\ function_calls = <<>>
    /\ pending_calls = <<>>
    /\ function_results = <<>>
    /\ all_products = <<>>
    /\ rounds = 0
    /\ idx = 1
    /\ round_results = <<>>
    /\ display_products = <<>>
    /\ response = NoResponse
    /\ model_calls = 0
    /\ always_tools = TRUE
    /\ deduped_display = <<>>
    /\ fetched = <<>>
    /\ updated_history = <<>>
    /\ contents = <<>>
    /\ model_failed = FALSE
    /\ rounds_log = <<>>
    /\ toolset \in Toolsets
    /\ emitted = <<>>

\* process_message is not running.
ChatIdle ==
    /\ cpc = "off"
    /\ proactive_products = <<>>
    /\ ai_message = ""
    /\ function_calls = <<>>
    /\ pending_calls = <<>>
    /\ function_results = <<>>
    /\ all_products = <<>>
    /\ rounds = 0
    /\ idx = 1
    /\ round_results = <<>>
    /\ display_products = <<>>
    /\ response = NoResponse
    /\ model_calls = 0
    /\ always_tools = TRUE
    /\ deduped_display = <<>>
    /\ fetched = <<>>
    /\ updated_history = <<>>
    /\ contents = <<>>
    /\ model_failed = FALSE
    /\ rounds_log = <<>>
    /\ toolset = "catalogue"
    /\ emitted = <<>>

----------------------------------------------------------------------------
(* Relevance Engine: text operations                                       *)

UpperAlphabet == "ABCDEFGHIJKLMNOPQRSTUVWXYZ"
LowerAlphabet == "abcdefghijklmnopqrstuvwxyz"

LowerCh(c) ==
    IF \E k \in 1..26 : Ch(UpperAlphabet, k) = c
    THEN Ch(LowerAlphabet, CHOOSE k \in 1..26 : Ch(UpperAlphabet, k) = c)
    ELSE c

RECURSIVE LowerFrom(_, _)
LowerFrom(s, i) ==
    IF i > Len(s) THEN "" ELSE LowerCh(Ch(s, i)) \o LowerFrom(s, i + 1)

\* str.lower()
Lower(s) == LowerFrom(s, 1)

\* k in t
Contains(k, t) ==
    \E i \in 0..(Len(t) - Len(k)) : SubSeq(t, i + 1, i + Len(k)) = k

\* t.startswith(k), t.endswith(k)
StartsWith(t, k) == Len(k) <= Len(t) /\ SubSeq(t, 1, Len(k)) = k
EndsWith(t, k) == Len(k) <= Len(t) /\ SubSeq(t, Len(t) - Len(k) + 1, Len(t)) = k

IsSpace(c) == c \in {" ", "\t", "\n"}

RECURSIVE SplitFrom(_, _, _)
SplitFrom(s, i, cur) ==
    IF i > Len(s)
    THEN IF cur = "" THEN {} ELSE {cur}
    ELSE IF IsSpace(Ch(s, i))
         THEN (IF cur = "" THEN {} ELSE {cur}) \cup SplitFrom(s, i + 1, "")
         ELSE SplitFrom(s, i + 1, cur \o Ch(s, i))

\* set(s.split())
SplitSet(s) == SplitFrom(s, 1, "")

\* re.search(r'\b' + re.escape(k) + r'\b', t), k beginning and ending in \w
WordSearch(k, t) ==
    \E i \in 1..(Len(t) - Len(k) + 1) :
        /\ SubSeq(t, i, i + Len(k) - 1) = k
        /\ (i = 1 \/ ~IsWordChar(Ch(t, i - 1)))
        /\ (i + Len(k) > Len(t) \/ ~IsWordChar(Ch(t, i + Len(k))))

\* term.isalnum()
IsAlnum(t) ==
    /\ Len(t) > 0
    /\ \A i \in 1..Len(t) : IsWordChar(Ch(t, i)) /\ Ch(t, i) # "_"

RECURSIVE LTrim(_)
LTrim(s) == IF Len(s) > 0 /\ IsSpace(Ch(s, 1)) THEN LTrim(SubSeq(s, 2, Len(s))) ELSE s

RECURSIVE RTrim(_)
RTrim(s) ==
    IF Len(s) > 0 /\ IsSpace(Ch(s, Len(s))) THEN RTrim(SubSeq(s, 1, Len(s) - 1)) ELSE s

RECURSIVE CountFrom(_, _, _)
\* s.count(sub): non-overlapping occurrences from position i
CountFrom(s, sub, i) ==
    IF i + Len(sub) - 1 > Len(s) THEN 0
    ELSE IF SubSeq(s, i, i + Len(sub) - 1) = sub
         THEN 1 + CountFrom(s, sub, i + Len(sub))
         ELSE CountFrom(s, sub, i + 1)

----------------------------------------------------------------------------
(* Relevance Engine: the keyword tables of _filter_and_rank_results         *)

\* product_type_keywords, in dict order
product_type_keywords == <<
    <<"iphone", {"iphone"}>>,
    <<"ipad", {"ipad"}>>,
    <<"macbook", {"macbook"}>>,
    <<"imac", {"imac"}>>,
    <<"mac mini", {"mac mini"}>>,
    <<"mac pro", {"mac pro"}>>,
    <<"mac studio", {"mac studio"}>>,
    <<"airpods", {"airpods", "air pods"}>>,
    <<"watch", {"watch", "apple watch"}>>,
    <<"laptop", {"laptop", "notebook"}>>,
    <<"phone", {"phone", "smartphone"}>>,
    <<"tablet", {"tablet"}>>,
    <<"headphones", {"headphones", "earbuds", "earphones"}>>,
    <<"tv",
      {
        "tv ", "television", "oled tv", "qled tv", "smart tv",
        "flat screen tv", "4k tv", "mini led tv" }>>,
    <<"monitor", {"monitor", "computer monitor", "gaming monitor", "curved monitor"}>>,
    <<"camera",
      {
        "camera", "digital camera", "dslr", "mirrorless", "point-and-shoot",
        "point and shoot" }>>,
    <<"drone", {"drone", "quadcopter", "unmanned aerial"}>>,
    <<"speaker",
      {
        "speaker", "bluetooth speaker", "portable speaker",
        "bookshelf speaker", "home theater speaker" }>>,
    <<"soundbar", {"soundbar", "sound bar"}>>,
    <<"printer", {"printer", "inkjet printer", "laser printer", "all-in-one printer"}>>,
    <<"smartwatch", {"smartwatch", "smart watch", "apple watch", "galaxy watch", "garmin watch"}>>,
    <<"playstation", {"playstation 5", "playstation 4", "ps5", "ps4"}>>,
    <<"xbox", {"xbox series x", "xbox series s", "xbox one x", "xbox one s", "xbox one", "xbox"}>>,
    <<"nintendo_switch",
      {
        "nintendo switch 2", "nintendo switch oled", "nintendo switch lite",
        "nintendo switch" }>>,
    <<"gaming", {"game console", "gaming console", "game controller"}>>,
    <<"vacuum",
      {
        "vacuum", "vacuum cleaner", "robot vacuum", "canister vacuum",
        "stick vacuum", "cordless vacuum" }>>,
    <<"air_purifier", {"air purifier", "air cleaner", "hepa purifier"}>>,
    <<"air_conditioner",
      {
        "air conditioner", "window air conditioner",
        "portable air conditioner", "window ac", "portable ac", "mini split",
        "ac unit", "air conditioning unit" }>>,
    <<"air_fryer", {"air fryer", "air fry", "airfryer"}>>,
    <<"grill",
      {
        "grill", "bbq", "gas grill", "charcoal grill", "pellet grill",
        "kamado grill", "outdoor grill" }>>,
    <<"refrigerator",
      {
        "refrigerator", "french door", "side-by-side", "bottom freezer",
        "top freezer", "counter-depth", "counter depth" }>>,
    <<"fridge", {"refrigerator", "french door", "side-by-side"}>>,
    <<"dishwasher", {"dishwasher"}>>,
    <<"washer", {"washer", "washing machine", "front load", "top load", "front-load", "top-load"}>>,
    <<"dryer", {"dryer", "clothes dryer", "gas dryer", "electric dryer"}>>,
    <<"microwave", {"microwave", "over-the-range", "countertop microwave", "built-in microwave"}>>,
    <<"range",
      {
        "range", "electric range", "gas range", "induction range",
        "freestanding range", "slide-in range" }>>,
    <<"oven", {"oven", "wall oven", "double oven", "single oven"}>>,
    <<"cooktop", {"cooktop", "induction cooktop", "gas cooktop", "electric cooktop"}>>,
    <<"freezer", {"freezer", "chest freezer", "upright freezer"}>> >>

\* appliance_accessory_filter
appliance_accessory_filter == <<
    <<"refrigerator",
      {
        "water filter", "replacement filter", "filter for select",
        "door panel", "refrigerator panel", "crisper drawer", "ice bin",
        "drip tray", "shelf for", "rack for" }>>,
    <<"fridge",
      {
        "water filter", "replacement filter", "filter for select",
        "door panel", "refrigerator panel" }>>,
    <<"dishwasher",
      {
        "dishwasher rack", "dishwasher basket", "dishwasher cleaner",
        "dishwasher detergent" }>>,
    <<"washer", {"washer pedestal", "laundry bag", "drum cleaner", "laundry detergent"}>>,
    <<"dryer", {"dryer pedestal", "dryer sheet", "vent kit", "drum cleaner"}>>,
    <<"microwave", {"turntable plate", "microwave plate", "microwave filter", "grease filter"}>>,
    <<"range", {"drip pan", "range hood", "burner grate", "burner knob", "range knob"}>>,
    <<"oven", {"oven rack", "oven thermometer", "oven mitt", "broiler pan"}>>,
    <<"cooktop", {"cooktop cleaner", "induction cookware"}>>,
    <<"freezer", {"freezer basket", "freezer shelf"}>>,
    <<"vacuum",
      {
        "vacuum bag", "replacement filter for", "brush roll for",
        "dustbin for", "filter pack for", "vacuum belt" }>>,
    <<"grill",
      {
        "grill cover", "grill brush", "grill mat", "grill cleaner",
        "grill light", "drip tray for" }>> >>

\* console_hardware_types
console_hardware_types ==
    {
      "playstation", "xbox", "nintendo_switch" }

\* game_title_name_prefixes
game_title_name_prefixes ==
    {
      "playstation pc " }

\* game_title_name_endings
game_title_name_endings ==
    {
      "[digital]" }

\* irrelevant_keywords
irrelevant_keywords ==
    {
      "gift card", "giftcard", "e-gift", "egift", "gift cards", "warranty",
      "protection plan", "geek squad", "membership", "subscription",
      "installation service", "setup service", "tech support", "applecare",
      "apple care" }

\* device_keywords
device_keywords ==
    {
      "iphone", "ipad", "macbook", "laptop", "phone", "tablet", "watch",
      "airpods", "tv", "television", "monitor", "camera", "drone", "speaker",
      "soundbar", "sound bar", "printer", "smartwatch", "vacuum", "grill",
      "refrigerator", "fridge", "dishwasher", "washer", "dryer", "microwave",
      "range", "oven", "cooktop", "freezer", "playstation", "ps5", "ps4",
      "xbox", "nintendo switch" }

\* accessory_keywords
accessory_keywords ==
    {
      "charger", "cable", "adapter", "stand", "mount", "screen protector" }

\* conflicts
conflicts == <<
    <<"iphone", {"ipad", "ipod", "macbook", "imac", "mac mini", "mac pro", "apple watch"}>>,
    <<"ipad", {"iphone", "macbook", "imac", "mac mini", "mac pro"}>>,
    <<"macbook", {"iphone", "ipad", "imac", "mac mini", "mac pro", "mac studio"}>>,
    <<"mac mini", {"iphone", "ipad", "macbook", "imac", "mac pro", "mac studio", "laptop"}>>,
    <<"imac", {"iphone", "ipad", "macbook", "mac mini", "mac pro", "mac studio", "laptop"}>>,
    <<"mac pro", {"iphone", "ipad", "macbook", "mac mini", "imac", "mac studio", "laptop"}>>,
    <<"mac studio", {"iphone", "ipad", "macbook", "mac mini", "imac", "mac pro", "laptop"}>>,
    <<"laptop", {"phone", "tablet", "watch"}>>,
    <<"phone", {"tablet", "laptop", "watch", "ipad"}>>,
    <<"tablet", {"phone", "laptop", "watch", "iphone"}>>,
    <<"tv", {"monitor", "projector", "computer display"}>>,
    <<"monitor", {"television", "projector"}>>,
    <<"camera", {"drone", "webcam", "security camera"}>>,
    <<"drone", {"security camera", "webcam"}>>,
    <<"vacuum", {"air purifier", "humidifier"}>>,
    <<"playstation", {"xbox", "nintendo switch"}>>,
    <<"xbox", {"playstation", "nintendo switch"}>>,
    <<"nintendo_switch", {"playstation", "xbox"}>>,
    <<"refrigerator",
      {
        "dishwasher", "washing machine", "washer", "dryer", "microwave",
        "range", "cooktop", "freezer" }>>,
    <<"fridge",
      {
        "dishwasher", "washing machine", "washer", "dryer", "microwave",
        "range", "cooktop" }>>,
    <<"dishwasher", {"refrigerator", "washing machine", "washer", "dryer", "microwave", "range"}>>,
    <<"washer", {"refrigerator", "dishwasher", "dryer", "microwave", "range", "cooktop"}>>,
    <<"dryer", {"refrigerator", "dishwasher", "washer", "microwave", "range", "cooktop"}>>,
    <<"microwave", {"refrigerator", "dishwasher", "washer", "dryer", "range", "cooktop"}>>,
    <<"range", {"refrigerator", "dishwasher", "washer", "dryer", "microwave"}>>,
    <<"oven", {"refrigerator", "dishwasher", "washer", "dryer", "microwave"}>>,
    <<"cooktop", {"refrigerator", "dishwasher", "washer", "dryer", "microwave"}>>,
    <<"freezer", {"dishwasher", "washer", "dryer", "microwave", "range", "cooktop"}>>,
    <<"air_conditioner",
      {
        "air fryer", "air fry", "air purifier", "dehumidifier", "humidifier",
        "space heater", "fan ", "tower fan", "ceiling fan", "box fan",
        "desk fan", "standing fan", "bladeless fan" }>> >>

\* the platform literals of game_title_suffix_regexes: [,\-]\s*<literal>\s*$
game_title_suffixes ==
    {"playstation 4", "playstation 5", "ps5", "ps4", "xbox series x",
     "xbox series s", "xbox one", "nintendo switch 2", "nintendo switch"}

\* ['game', 'games', 'dlc', 'expansion', 'edition of']
explicit_game_words == {"game", "games", "dlc", "expansion", "edition of"}

\* the colour words recognised as specs
spec_colors ==
    {"black", "white", "silver", "gold", "blue", "red", "green", "purple",
     "pink", "yellow"}

\* Looks a key up in a table of <<key, values>> pairs; {} when absent.
Lookup(table, key) ==
    UNION {table[i][2] : i \in {j \in DOMAIN table : table[j][1] = key}}
HasKey(table, key) == \E i \in DOMAIN table : table[i][1] = key

----------------------------------------------------------------------------
(* Relevance Engine: the per-listing filters and the score                 *)

\* A catalogue listing (the fields _filter_and_rank_results reads).
Listing(sku, name, short_description, model_number, online_availability) ==
    [sku |-> sku, name |-> name, short_description |-> short_description,
     model_number |-> model_number, online_availability |-> online_availability]

\* f"{product.name} {product.short_description or ''} {product.model_number or ''}".lower()
product_text(p) ==
    Lower(p.name \o " " \o p.short_description \o " " \o p.model_number)

\* is_irrelevant_product
IrrelevantCaseSensitive(p) ==
    \E k \in irrelevant_keywords :
        IF Contains(" ", k) THEN Contains(k, p.name) ELSE WordSearch(k, p.name)
is_irrelevant_product(p) ==
    \E k \in irrelevant_keywords :
        IF Contains(" ", k)
        THEN Contains(k, product_text(p))
        ELSE WordSearch(k, product_text(p))

\* detected_product_type; "" stands for None
detected_product_type(ql) ==
    LET hits == {i \in DOMAIN product_type_keywords :
                    \E k \in product_type_keywords[i][2] : Contains(k, ql)}
    IN IF hits = {} THEN ""
       ELSE product_type_keywords[CHOOSE i \in hits : \A j \in hits : i <= j][1]

\* specs
specs(ql) ==
    {t \in SplitSet(ql) : Contains("gb", t) \/ Contains("tb", t) \/ t \in spec_colors}

is_explicit_game_search(ql) == \E g \in explicit_game_words : Contains(g, ql)
is_device_search(ql) == \E d \in device_keywords : Contains(d, ql)
accessory_in_query(ql) == \E a \in accessory_keywords : Contains(a, ql)
is_accessory_product(p) == \E a \in accessory_keywords : Contains(a, product_text(p))

is_appliance_accessory(ql, p) ==
    \E i \in DOMAIN appliance_accessory_filter :
        /\ Contains(appliance_accessory_filter[i][1], ql)
        /\ \E f \in appliance_accessory_filter[i][2] : Contains(f, Lower(p.name))

\* any(re.search(pattern, pname_lower) for pattern in game_title_suffix_regexes)
MatchesGameSuffix(n) ==
    \/ \E i \in 1..Len(n) :
          /\ Ch(n, i) \in {",", "-"}
          /\ LET rest == LTrim(SubSeq(n, i + 1, Len(n)))
             IN \/ RTrim(rest) \in game_title_suffixes
                \* switch 2?\s*$
                \/ RTrim(rest) = "switch 2"
                \/ RTrim(rest) = "switch" /\ Len(rest) > 6 /\ Ch(rest, 7) = " "
    \* - windows(?:\s+\[digital\])?\s*$
    \/ \E i \in 1..(Len(n) - 8) :
          /\ SubSeq(n, i, i + 8) = "- windows"
          /\ LET rest == SubSeq(n, i + 9, Len(n))
             IN \/ RTrim(rest) = ""
                \/ LTrim(RTrim(rest)) = "[digital]" /\ IsSpace(Ch(rest, 1))

is_game_title(ql, p) ==
    LET n == Lower(p.name)
        is_console_hardware == Contains("console", n)
        is_ns_multi_platform ==
            /\ ~is_console_hardware
            /\ detected_product_type(ql) = "nintendo_switch"
            /\ CountFrom(n, "nintendo switch", 1) >= 2
    IN /\ detected_product_type(ql) \in console_hardware_types
       /\ ~is_explicit_game_search(ql)
       /\ ~is_console_hardware
       /\ \/ is_ns_multi_platform
          \/ \E x \in game_title_name_prefixes : StartsWith(n, x)
          \/ \E e \in game_title_name_endings : EndsWith(n, e)
          \/ MatchesGameSuffix(n)

is_accessory_by_pattern(ql, p) ==
    /\ detected_product_type(ql) # ""
    /\ is_device_search(ql)
    /\ ~accessory_in_query(ql)
    /\ \E k \in Lookup(product_type_keywords, detected_product_type(ql)) :
          Contains("for " \o k, product_text(p))

is_skipped_accessory(ql, p) ==
    /\ is_device_search(ql)
    /\ (is_accessory_product(p) \/ is_accessory_by_pattern(ql, p))
    /\ ~accessory_in_query(ql)

HasConflictCaseSensitive(ql, p) ==
    /\ detected_product_type(ql) # ""
    /\ HasKey(conflicts, detected_product_type(ql))
    /\ \E c \in Lookup(conflicts, detected_product_type(ql)) : Contains(c, p.name)
has_conflict(ql, p) ==
    /\ detected_product_type(ql) # ""
    /\ HasKey(conflicts, detected_product_type(ql))
    /\ \E c \in Lookup(conflicts, detected_product_type(ql)) : Contains(c, Lower(p.name))

\* +500 console hardware, +200 expected type
type_score(ql, p) ==
    LET t == detected_product_type(ql)
        n == Lower(p.name)
    IN IF t # "" /\ \E k \in Lookup(product_type_keywords, t) : Contains(k, n)
       THEN IF t \in console_hardware_types /\ Contains("console", n) THEN 500
            ELSE IF t \in console_hardware_types THEN 0
            ELSE 200
       ELSE 0

\* +100 exact query match in name
exact_score(ql, p) == IF Contains(ql, Lower(p.name)) THEN 100 ELSE 0

\* +50 per spec found, -30 per spec missing
spec_score(ql, p) ==
    LET found == {s \in specs(ql) : Contains(s, product_text(p))}
        missing == specs(ql) \ found
    IN 50 * Cardinality(found) - 30 * Cardinality(missing)

\* The score at the "if score < 0" test.
threshold_score(ql, p) == type_score(ql, p) + exact_score(ql, p) + spec_score(ql, p)

\* +10 per query term found, +20 model number, +5 online availability
late_score(ql, p) ==
    10 * Cardinality({t \in SplitSet(ql) : Contains(t, product_text(p))})
    + (IF p.model_number # "" /\ \E t \in SplitSet(ql) : IsAlnum(t) /\ Len(t) > 3
       THEN 20 ELSE 0)
    + (IF p.online_availability THEN 5 ELSE 0)

\* Where the loop body leaves a listing: the "continue" that drops it, or
\* "scored" when it reaches scored_products.append.
Stage(q, p) ==
    LET ql == Lower(q)
    IN IF is_irrelevant_product(p) THEN "irrelevant"
       ELSE IF is_appliance_accessory(ql, p) THEN "appliance_accessory"
       ELSE IF is_game_title(ql, p) THEN "game_title"
       ELSE IF is_skipped_accessory(ql, p) THEN "accessory"
       ELSE IF has_conflict(ql, p) THEN "conflict"
       ELSE IF threshold_score(ql, p) < 0 THEN "threshold"
       ELSE "scored"

Score(q, p) == threshold_score(Lower(q), p) + late_score(Lower(q), p)

----------------------------------------------------------------------------
(* Relevance Engine: the inputs of the model                               *)

Catalogue ==
    {Listing(5000001, "$50 Gift Card", "", "", TRUE),
     Listing(5000002, "AppleCare+ for iPhone 15", "", "", TRUE),
     Listing(6525421, "Apple - iPhone 15 128GB - Black", "", "MTLW3LL/A", TRUE),
     Listing(6525422, "Apple - iPhone 15 256GB - Blue", "", "MTLX3LL/A", FALSE),
     Listing(6525430, "Apple - iPad 10th Gen 64GB - Blue", "", "", TRUE),
     Listing(6525431, "Apple iPad 10th Gen", "", "", TRUE),
     Listing(6525440, "USB-C Charger for iPhone 15", "", "", TRUE),
     Listing(6525450, "Samsung - Galaxy S24 256GB - Blue", "", "", TRUE),
     Listing(6525460, "Spider-Man 2 - PlayStation 5", "", "", TRUE),
     Listing(6525470, "Apple - Smartphone 15 Pro", "Works like iPhone 15", "MTLV3LL/A", TRUE)}

Queries ==
    {"iPhone 15", "iphone 15 red", "256GB blue", "PlayStation 5", "iphone charger"}

RECURSIVE SeqsUpTo(_, _)
SeqsUpTo(S, n) ==
    IF n = 0 THEN {<<>>}
    ELSE LET shorter == SeqsUpTo(S, n - 1)
         IN shorter \cup {Append(xs, x) : xs \in {ys \in shorter : Len(ys) = n - 1}, x \in S}

\* ProductSearchResponse (total, products, to); from_, current_page and
\* total_pages are the constant 1 in the function's output.
SearchResponse(total, products, to) ==
    [total |-> total, products |-> products, to |-> to]

\* What _parse_search upstream hands over: one page of listings.
RawResponses == {SearchResponse(Len(xs), xs, Len(xs)) : xs \in SeqsUpTo(Catalogue, MaxRaw)}

NoSearchResponse == SearchResponse(0 - 1, <<>>, 0 - 1)

\* Stage and Score of every (query, listing) pair, computed once.
RankTable ==
    [q \in Queries |-> [p \in Catalogue |-> [stage |-> Stage(q, p), score |-> Score(q, p)]]]

----------------------------------------------------------------------------
(* Relevance Engine: _filter_and_rank_results                              *)

RECURSIVE SelectStage(_, _, _)
\* the listings of xs that the loop leaves at the given stage, in order
SelectStage(q, xs, stage) ==
    IF xs = <<>> THEN <<>>
    ELSE IF RankTable[q][Head(xs)].stage = stage
         THEN <<Head(xs)>> \o SelectStage(q, Tail(xs), stage)
         ELSE SelectStage(q, Tail(xs), stage)

\* scored_products before the sort
scored_products(q, xs) == SelectStage(q, xs, "scored")

\* irrelevant_filtered
irrelevant_filtered(q, xs) == SelectStage(q, xs, "irrelevant")

RECURSIVE InsertDesc(_, _, _)
\* x goes behind every listing whose score is at least its own
InsertDesc(q, sorted, x) ==
    IF sorted = <<>> THEN <<x>>
    ELSE IF RankTable[q][Head(sorted)].score >= RankTable[q][x].score
         THEN <<Head(sorted)>> \o InsertDesc(q, Tail(sorted), x)
         ELSE <<x>> \o sorted

RECURSIVE SortFrom(_, _, _)
SortFrom(q, sorted, xs) ==
    IF xs = <<>> THEN sorted
    ELSE SortFrom(q, InsertDesc(q, sorted, Head(xs)), Tail(xs))

\* scored_products.sort(key=lambda x: x[0], reverse=True): stable, descending
SortTiesReversed(q, xs) == SortFrom(q, <<>>, [i \in 1..Len(xs) |-> xs[Len(xs) + 1 - i]])
SortDesc(q, xs) == SortFrom(q, <<>>, xs)

\* What the fallback branch draws its results from: scored_products, re-sorted.
FallbackCandidates(q, xs) == SortDesc(q, scored_products(q, xs))

filter_and_rank_results(q, result, n) ==
    IF result.products = <<>> THEN result
    ELSE LET xs == result.products
             sorted == SortDesc(q, scored_products(q, xs))
             top == Take(sorted, n)
             irrelevant_count == Len(irrelevant_filtered(q, xs))
             filtered_products ==
                 IF top = <<>>
                 THEN IF 5 * irrelevant_count >= 4 * Len(xs) THEN <<>>
                      ELSE IF scored_products(q, xs) # <<>>
                           THEN Take(FallbackCandidates(q, xs), n)
                           ELSE <<>>
                 ELSE top
         IN SearchResponse(Len(filtered_products), Take(filtered_products, n),
                           Min(n, Len(filtered_products)))

----------------------------------------------------------------------------
(* Relevance Engine: the calls                                             *)

\* search_products hands the upstream page to _filter_and_rank_results
FilterAndRank ==
    /\ rpc = "ready"
    /\ ranked' = filter_and_rank_results(query, raw_result, max_results)
    /\ rpc' = "ranked"
    /\ UNCHANGED <<query, raw_result, max_results, reranked>>
    /\ UNCHANGED notRank

\* the function applied to its own output, same query and max_results
FilterAndRankAgain ==
    /\ rpc = "ranked"
    /\ reranked' = filter_and_rank_results(query, ranked, max_results)
    /\ rpc' = "reranked"
    /\ UNCHANGED <<query, raw_result, max_results, ranked>>
    /\ UNCHANGED notRank

RankInit ==
    /\ rpc = "ready"
    /\ query \in Queries
    /\ raw_result \in RawResponses
    /\ max_results \in 1..MaxResults
    /\ ranked = NoSearchResponse
    /\ reranked = NoSearchResponse

RankIdle ==
    /\ rpc = "off"
    /\ query = ""
    /\ raw_result = NoSearchResponse
    /\ max_results = 1
    /\ ranked = NoSearchResponse
    /\ reranked = NoSearchResponse

----------------------------------------------------------------------------
(* Catalog Gateway: complementary products                                 *)

\* CATEGORY_NAME_TO_QUERIES, in dict order
CATEGORY_NAME_TO_QUERIES == <<
    <<"televisions", "soundbar streaming device">>,
    <<"tv", "soundbar streaming device">>,
    <<"television", "soundbar streaming device">>,
    <<"flat-screen tvs", "soundbar streaming device">>,
    <<"flat screen tvs", "soundbar streaming device">>,
    <<"oled", "soundbar HDMI cable">>,
    <<"qled", "soundbar HDMI cable">>,
    <<"4k tv", "soundbar streaming device">>,
    <<"monitors", "monitor stand monitor arm webcam">>,
    <<"monitor", "monitor stand webcam">>,
    <<"projectors", "soundbar projector screen">>,
    <<"streaming media players", "HDMI cable remote streaming">>,
    <<"streaming media player", "HDMI cable remote streaming">>,
    <<"tv & home theater accessories", "HDMI cable TV mount surge protector">>,
    <<"sound bars", "receiver HDMI cable TV wall mount">>,
    <<"sound bar", "receiver HDMI cable TV wall mount">>,
    <<"soundbar", "receiver HDMI cable TV wall mount">>,
    <<"receivers & amplifiers", "speaker wire speaker surround sound">>,
    <<"speakers", "speaker stand audio cable">>,
    <<"speaker", "speaker stand audio cable">>,
    <<"headphones", "headphone stand audio cable">>,
    <<"headphone", "headphone stand audio cable">>,
    <<"earbuds", "earbuds case wireless charger">>,
    <<"laptops", "laptop bag USB hub">>,
    <<"laptop", "laptop bag USB hub">>,
    <<"notebooks", "laptop bag external monitor">>,
    <<"macbooks", "laptop bag USB hub">>,
    <<"desktops", "monitor keyboard mouse">>,
    <<"desktop", "monitor keyboard mouse">>,
    <<"gaming desktops", "gaming monitor gaming keyboard gaming headset">>,
    <<"tablets", "tablet case keyboard">>,
    <<"tablet", "tablet case keyboard">>,
    <<"ipads", "iPad case keyboard Apple Pencil">>,
    <<"computer accessories & peripherals", "USB hub keyboard mouse monitor">>,
    <<"pc gaming", "gaming headset gaming mouse gaming keyboard">>,
    <<"virtual reality", "VR controller VR head strap battery">>,
    <<"cell phones", "phone case wireless earbuds wireless charger">>,
    <<"cell phone", "phone case wireless earbuds wireless charger">>,
    <<"smartphones", "phone case wireless earbuds wireless charger">>,
    <<"unlocked cell phones", "phone case screen protector wireless charger">>,
    <<"iphones", "iPhone case AirPods wireless charger">>,
    <<"samsung galaxy phones", "Samsung case Galaxy Buds wireless charger">>,
    <<"cell phone cases", "screen protector wireless charger cable">>,
    <<"cell phone chargers & cables", "wireless charger USB hub power bank">>,
    <<"tablet accessories", "tablet case stylus keyboard">>,
    <<"cameras", "camera memory card camera bag">>,
    <<"camera", "camera memory card camera bag">>,
    <<"digital cameras", "camera memory card camera bag">>,
    <<"mirrorless cameras", "camera lens memory card camera bag">>,
    <<"dslr", "camera lens memory card flash">>,
    <<"dslr cameras", "camera lens memory card flash">>,
    <<"point & shoot cameras", "memory card camera case">>,
    <<"digital camera accessories", "memory card camera bag tripod">>,
    <<"drones & drone accessories", "drone battery propeller drone bag">>,
    <<"security cameras & surveillance", "security camera mount NVR Ethernet cable">>,
    <<"video games", "gaming headset game controller charging dock">>,
    <<"gaming", "gaming headset game controller charging dock">>,
    <<"game consoles", "gaming headset controller charging dock">>,
    <<"playstation", "PlayStation controller gaming headset">>,
    <<"xbox", "Xbox controller gaming headset">>,
    <<"nintendo", "Nintendo Switch case controller">>,
    <<"refrigerators", "water filter ice maker refrigerator organizer">>,
    <<"refrigerator", "water filter ice maker refrigerator organizer">>,
    <<"fridge", "water filter ice maker refrigerator organizer">>,
    <<"dishwashers", "dishwasher cleaner dishwasher rack">>,
    <<"dishwasher", "dishwasher cleaner dishwasher rack">>,
    <<"ranges", "range hood cookware baking sheet">>,
    <<"range", "range hood cookware baking sheet">>,
    <<"cooktops", "range hood cookware induction pan">>,
    <<"microwaves", "microwave tray microwave cleaner plate">>,
    <<"microwave", "microwave tray microwave cleaner plate">>,
    <<"washers & dryers", "laundry detergent dryer sheet pedestal">>,
    <<"washer", "laundry detergent dryer sheet">>,
    <<"dryer", "dryer sheet laundry detergent dryer vent">>,
    <<"freezers & ice makers", "freezer basket ice maker water filter">>,
    <<"freezer", "freezer basket ice maker water filter">>,
    <<"small kitchen appliances", "coffee maker air fryer blender toaster">>,
    <<"vacuums & floor care", "vacuum filter vacuum bag mop pad">>,
    <<"vacuum", "vacuum filter vacuum bag mop pad">>,
    <<"air purifiers", "air purifier filter humidifier">>,
    <<"air purifier", "air purifier filter">>,
    <<"space heaters", "space heater thermostat humidifier">>,
    <<"humidifiers", "humidifier filter air purifier">>,
    <<"air conditioners", "window kit remote control cover">>,
    <<"air conditioner", "window kit remote control cover">>,
    <<"window air conditioner", "window kit remote control cover">>,
    <<"portable air conditioner", "window kit exhaust hose">>,
    <<"grills & outdoor kitchens", "grill cover grill brush outdoor thermometer">>,
    <<"smart home", "smart plug smart bulb smart hub">>,
    <<"smart speakers & displays", "smart home hub smart bulb smart plug">>,
    <<"smart thermostats", "smart thermostat sensor smart home hub">>,
    <<"smart lighting", "smart bulb smart switch smart home hub">>,
    <<"wi-fi & networking", "WiFi extender Ethernet switch access point">>,
    <<"networking", "WiFi extender Ethernet switch access point">>,
    <<"printers", "printer ink cartridge paper">>,
    <<"printer", "printer ink cartridge paper">>,
    <<"smartwatches", "smartwatch band wireless charger">>,
    <<"smartwatch", "smartwatch band wireless charger">>,
    <<"fitness trackers & accessories", "fitness band heart rate monitor sports earbuds">>,
    <<"fitness tracker", "fitness band heart rate monitor">>,
    <<"car safety & security", "dash cam backup camera radar detector">>,
    <<"ev charging", "EV charger charging cable adapter">>,
    <<"electric scooters", "scooter lock helmet scooter bag">>,
    <<"hair care", "hair dryer hair straightener brush">>,
    <<"shaving & hair removal", "razor blade shaving cream trimmer">>,
    <<"oral care", "electric toothbrush replacement head floss">>,
    <<"toys, games & collectibles", "board game LEGO trading card">>,
    <<"exercise & fitness equipment", "resistance band yoga mat dumbbells">>,
    <<"workout recovery", "foam roller massage gun heating pad">>,
    <<"patio furniture & decor", "patio cover outdoor cushion string light">>,
    <<"office furniture", "monitor arm desk organizer ergonomic chair">>,
    <<"baby care", "baby monitor baby cam white noise machine">>,
    <<"tv stands", "TV mount HDMI cable cable management">>
    >>

\* the keyword scan of _get_complement_query, in list order
complement_keywords == <<
    <<"refrigerator", "water filter ice maker refrigerator organizer">>,
    <<"fridge", "water filter ice maker refrigerator organizer">>,
    <<"washer", "laundry detergent dryer sheet">>,
    <<"dryer", "dryer sheet laundry detergent">>,
    <<"dishwasher", "dishwasher cleaner dishwasher rack">>,
    <<"microwave", "microwave tray plate cleaner">>,
    <<"range", "range hood cookware">>,
    <<"freezer", "freezer basket ice maker">>,
    <<"vacuum", "vacuum filter vacuum bag">>,
    <<"appliance", "kitchen appliance organizer">>,
    <<"tv", "soundbar streaming device">>,
    <<"television", "soundbar streaming device">>,
    <<"laptop", "laptop bag USB hub">>,
    <<"phone", "phone case wireless earbuds">>,
    <<"camera", "camera memory card camera bag">>,
    <<"game", "gaming headset controller">>,
    <<"tablet", "tablet case keyboard">>,
    <<"smartwatch", "smartwatch band charger">>,
    <<"speaker", "speaker stand audio cable">>,
    <<"printer", "printer ink cartridge">>,
    <<"drone", "drone battery propeller">>,
    <<"smart", "smart home hub smart plug">>,
    <<"grill", "grill cover grill brush">>,
    <<"fitness", "resistance band yoga mat">>,
    <<"scooter", "scooter lock helmet">>,
    <<"ev", "EV charger charging cable">>
    >>

\* s.strip()
Strip(s) == LTrim(RTrim(s))

\* The value stored under a key of a table of <<key, value>> pairs.
PairValue(table, key) == table[CHOOSE i \in DOMAIN table : table[i][1] = key][2]

RECURSIVE Join(_)
\* " ".join(xs)
Join(xs) ==
    IF xs = <<>> THEN ""
    ELSE IF Len(xs) = 1 THEN xs[1]
    ELSE xs[1] \o " " \o Join(Tail(xs))

\* _get_complement_query(category_hints)
get_complement_query(category_hints) ==
    LET exact == {i \in DOMAIN category_hints :
                     HasKey(CATEGORY_NAME_TO_QUERIES, Strip(Lower(category_hints[i])))}
        cat_str == Lower(Join(category_hints))
        scan == {i \in DOMAIN complement_keywords :
                    Contains(complement_keywords[i][1], cat_str)}
    IN IF exact # {}
       THEN PairValue(CATEGORY_NAME_TO_QUERIES,
                      Strip(Lower(category_hints[CHOOSE i \in exact : \A j \in exact : i <= j])))
       ELSE IF scan # {}
            THEN complement_keywords[CHOOSE i \in scan : \A j \in scan : i <= j][2]
            ELSE ""

\* The category_hints a caller may pass; <<>> also stands for None.
CategoryHints ==
    {<<>>,
     <<"Televisions">>,
     <<"Books", " Laptops ">>,
     <<"Smart Home Devices">>,
     <<"Books">>,
     <<"Seven Wonders">>}

\* fallback_query, tabulated over the hints of the model
FallbackQueryTable ==
    [h \in CategoryHints |-> IF h # <<>> THEN get_complement_query(h) ELSE ""]

\* The anchor product of the model, as the str the caller passes.
AnchorSku == FirstSku

\* What alsoBought may answer: short lists with repeats and the anchor
\* itself, and one list of seven distinct products.
AlsoBoughtLists ==
    {[i \in DOMAIN xs |-> Product(xs[i], "get_also_bought")] :
        xs \in SeqsUpTo(FirstSku..(FirstSku + 3), MaxAlso)}
    \cup {[i \in 1..7 |-> Product(FirstSku + i, "get_also_bought")]}

\* What the fallback search may answer (page_size=6).
ComplementSearchLists ==
    {<<>>,
     [i \in 1..6 |-> Product(FirstSku + 3 + i, "search_products")],
     <<Product(FirstSku + 4, "search_products"), Product(FirstSku + 4, "search_products"),
       Product(FirstSku + 1, "search_products")>>}

RECURSIVE MergeNew(_, _, _)
\* for p in ps: append p to results unless str(p.sku) was seen
MergeNew(results, seen, ps) ==
    IF ps = <<>> THEN [results |-> results, seen |-> seen]
    ELSE IF SkuStr(Head(ps)) \notin seen
         THEN MergeNew(Append(results, Head(ps)), seen \cup {SkuStr(Head(ps))}, Tail(ps))
         ELSE MergeNew(results, seen, Tail(ps))

\* if len(results) >= 3: return results[:6]
EnoughAlsoBoughtRaw(yielded, results) == Len(yielded) >= AlsoBoughtEnough
EnoughAlsoBought(yielded, results) == Len(results) >= AlsoBoughtEnough

UpstreamCall(endpoint, ok) == [endpoint |-> endpoint, ok |-> ok]

NoOp == [name |-> "none"]
NoOutcome == [kind |-> "none", value |-> <<>>]
Returned(value) == [kind |-> "returned", value |-> value]

\* The locals of an operation do not outlive its invocation.
ResetCompLocals ==
    /\ also_bought' = <<>>
    /\ comp_results' = <<>>
    /\ seen_skus' = {}
    /\ fallback_query' = ""
ResetStoreLocals ==
    /\ stores_list' = <<>>
    /\ result_stores' = <<>>

\* A caller invokes get_complementary_products(sku, category_hints).
CompCall ==
    /\ gpc = "idle"
    /\ nops < MaxOps
    /\ nops' = nops + 1
    /\ \E h \in CategoryHints :
          op' = [name |-> "get_complementary_products", sku |-> SkuStr(Product(AnchorSku, "")),
                 category_hints |-> h]
    /\ upstream_calls' = <<>>
    /\ acquisitions' = 0
    /\ op_result' = NoOutcome
    /\ also_bought' = <<>>
    /\ comp_results' = <<>>
    /\ seen_skus' = {SkuStr(Product(AnchorSku, ""))}
    /\ fallback_query' = ""
    /\ gpc' = "also_bought"
    /\ ResetStoreLocals
    /\ UNCHANGED cachevars
    /\ UNCHANGED notGate

\* Call 1: get_also_bought acquires the quota gate, issues the alsoBought
\* request and answers [] when it fails; then the decision about call 2.
CompAlsoBought ==
    /\ gpc = "also_bought"
    /\ acquisitions' = acquisitions + 1
    /\ \E ok \in BOOLEAN, ps \in AlsoBoughtLists :
          LET yielded == IF ok THEN ps ELSE <<>>
              merged == MergeNew(<<>>, seen_skus, yielded)
              fq == FallbackQueryTable[op.category_hints]
          IN /\ upstream_calls' = Append(upstream_calls, UpstreamCall("alsoBought", ok))
             /\ also_bought' = yielded
             /\ comp_results' = merged.results
             /\ seen_skus' = merged.seen
             /\ IF EnoughAlsoBought(yielded, merged.results)
                THEN /\ op_result' = Returned(Take(merged.results, ComplementLimit))
                     /\ fallback_query' = fallback_query
                     /\ gpc' = "idle"
                ELSE IF fq # ""
                     THEN /\ op_result' = op_result
                          /\ fallback_query' = fq
                          /\ gpc' = "search"
                     ELSE /\ op_result' = Returned(Take(merged.results, ComplementLimit))
                          /\ fallback_query' = fq
                          /\ gpc' = "idle"
    /\ UNCHANGED <<op, nops, storevars, cachevars>>
    /\ UNCHANGED notGate

\* Call 2: search_products(fallback_query, page_size=6); a failure is caught.
CompSearch ==
    /\ gpc = "search"
    /\ acquisitions' = acquisitions + 1
    /\ \E ok \in BOOLEAN, ps \in ComplementSearchLists :
          LET merged == IF ok THEN MergeNew(comp_results, seen_skus, ps)
                        ELSE [results |-> comp_results, seen |-> seen_skus]
          IN /\ upstream_calls' = Append(upstream_calls, UpstreamCall("search", ok))
             /\ comp_results' = merged.results
             /\ seen_skus' = merged.seen
             /\ op_result' = Returned(Take(merged.results, ComplementLimit))
    /\ gpc' = "idle"
    /\ UNCHANGED <<op, nops, also_bought, fallback_query, storevars, cachevars>>
    /\ UNCHANGED notGate

\* The per-store availability requests sent so far (the loop's position).
CallsToAvailability(calls) ==
    Cardinality({i \in DOMAIN calls : calls[i].endpoint = "storeAvailability"})

----------------------------------------------------------------------------
(* Catalog Gateway: store availability                                     *)

\* max(1, max_stores)
StoreLimit(max_stores) == IF max_stores > 1 THEN max_stores ELSE 1

\* The stores the locator may answer with for pageSize n: the n nearest or
\* fewer, none when no store is in the radius.
LocatorAnswers(n) == {[i \in 1..k |-> 1000 + i] : k \in 0..n}

\* StoreSearchResponse(sku, productName, stores, totalStores)
StoreSearchResponse(stores) == [stores |-> stores, totalStores |-> Len(stores)]

\* A caller invokes get_store_availability(sku, postal_code, radius, max_stores).
StoreCall ==
    /\ gpc = "idle"
    /\ nops < MaxOps
    /\ nops' = nops + 1
    /\ \E n \in 1..MaxStores :
          op' = [name |-> "get_store_availability", sku |-> SkuStr(Product(AnchorSku, "")),
                 postal_code |-> "94103", max_stores |-> n]
    /\ upstream_calls' = <<>>
    /\ acquisitions' = 0
    /\ op_result' = NoOutcome
    /\ stores_list' = <<>>
    /\ result_stores' = <<>>
    /\ gpc' = "locate"
    /\ ResetCompLocals
    /\ UNCHANGED cachevars
    /\ UNCHANGED notGate

\* Step 1: the quota gate, then GET /v1/stores; a failure or an empty answer
\* returns the response without stores.
StoreLocate ==
    /\ gpc = "locate"
    /\ acquisitions' = acquisitions + 1
    /\ \/ /\ upstream_calls' = Append(upstream_calls, UpstreamCall("stores", FALSE))
          /\ op_result' = Returned(StoreSearchResponse(<<>>))
          /\ gpc' = "idle"
          /\ UNCHANGED stores_list
       \/ \E found \in LocatorAnswers(StoreLimit(op.max_stores)) :
             /\ upstream_calls' = Append(upstream_calls, UpstreamCall("stores", TRUE))
             /\ stores_list' = found
             /\ IF found = <<>>
                THEN op_result' = Returned(StoreSearchResponse(<<>>)) /\ gpc' = "idle"
                ELSE op_result' = op_result /\ gpc' = "availability"
    /\ UNCHANGED <<op, nops, result_stores, compvars, cachevars>>
    /\ UNCHANGED notGate

\* Step 2, once per store of stores_list[:max(1, max_stores)]: the quota
\* gate, then GET /v1/products/{sku}/stores/{storeId}; a failure skips the
\* store. After the last store the response is returned.
StoreAvailability ==
    /\ gpc = "availability"
    /\ acquisitions' = acquisitions + 1
    /\ LET checked == CallsToAvailability(upstream_calls)
           store == stores_list[checked + 1]
           last == checked + 1 >= Min(Len(stores_list), StoreLimit(op.max_stores))
       IN \E ok \in BOOLEAN, inStock \in BOOLEAN :
             LET stores == IF ok THEN Append(result_stores, [store |-> store, inStock |-> inStock])
                           ELSE result_stores
             IN /\ upstream_calls' = Append(upstream_calls, UpstreamCall("storeAvailability", ok))
                /\ result_stores' = stores
                /\ IF last
                   THEN op_result' = Returned(StoreSearchResponse(stores)) /\ gpc' = "idle"
                   ELSE op_result' = op_result /\ gpc' = "availability"
    /\ UNCHANGED <<op, nops, stores_list, compvars, cachevars>>
    /\ UNCHANGED notGate

----------------------------------------------------------------------------
(* Catalog Gateway: the one-request operations                             *)

\* The operations that acquire the quota gate once and send one request.
OneRequestOperations ==
    {"search_by_upc", "get_product_by_sku", "search_products", "advanced_search",
     "get_recommendations", "get_similar_products", "get_also_bought"}

\* The path of the request an operation sends.
Endpoint(name) ==
    IF name = "search_by_upc" THEN "products(upc)"
    ELSE IF name = "get_product_by_sku" THEN "products(sku)"
    ELSE IF name = "search_products" THEN "search"
    ELSE IF name = "advanced_search" THEN "products(filters)"
    ELSE IF name = "get_recommendations" THEN "alsoViewed"
    ELSE IF name = "get_similar_products" THEN "similar"
    ELSE "alsoBought"

\* How a request fails: no answer at all (httpx.TransportError), or an
\* answer whose status raise_for_status() rejects (httpx.HTTPStatusError).
Failures == {"transport", "404", "500"}

Raised(error) == [kind |-> "raised", value |-> error]

\* ProductSearchResponse(total, products, ...)
ProductSearchResponse(products) == [total |-> Len(products), products |-> products]

\* Optional[Product]: None, or the product.
NoProduct == <<>>
Some(product) == <<product>>

\* What an operation returns when the request succeeds.
Answers(name) ==
    IF name \in {"search_by_upc", "get_product_by_sku"}
    THEN {NoProduct, Some(Product(AnchorSku, name))}
    ELSE IF name \in {"search_products", "advanced_search"}
    THEN {ProductSearchResponse(<<>>), ProductSearchResponse(<<Product(AnchorSku + 1, name)>>)}
    ELSE {<<>>, <<Product(AnchorSku + 1, name)>>}

\* The except clauses of each operation.
OnFailure(name, failure) ==
    IF name = "search_by_upc" THEN Raised(failure)
    ELSE IF name = "get_product_by_sku"
    THEN IF failure = "404" THEN Returned(NoProduct) ELSE Raised(failure)
    ELSE IF name = "search_products" THEN Raised(failure)
    ELSE IF name = "advanced_search" THEN Returned(ProductSearchResponse(<<>>))
    ELSE Returned(<<>>)

\* A caller invokes one of the one-request operations.
OneRequestCall ==
    /\ gpc = "idle"
    /\ nops < MaxOps
    /\ nops' = nops + 1
    /\ \E name \in OneRequestOperations : op' = [name |-> name]
    /\ upstream_calls' = <<>>
    /\ acquisitions' = 0
    /\ op_result' = NoOutcome
    /\ gpc' = "request"
    /\ ResetCompLocals
    /\ ResetStoreLocals
    /\ UNCHANGED cachevars
    /\ UNCHANGED notGate

\* The quota gate, the request, and the answer or the except clause.
OneRequest ==
    /\ gpc = "request"
    /\ acquisitions' = acquisitions + 1
    /\ \/ \E value \in Answers(op.name) :
             /\ upstream_calls' = Append(upstream_calls, UpstreamCall(Endpoint(op.name), TRUE))
             /\ op_result' = Returned(value)
       \/ \E failure \in Failures :
             /\ upstream_calls' = Append(upstream_calls, UpstreamCall(Endpoint(op.name), FALSE))
             /\ op_result' = OnFailure(op.name, failure)
    /\ gpc' = "idle"
    /\ UNCHANGED <<op, nops, compvars, storevars, cachevars>>
    /\ UNCHANGED notGate

----------------------------------------------------------------------------
(* Catalog Gateway: category lookups and their caches                      *)

\* COMMON_CATEGORIES (the entries the names below reach)
COMMON_CATEGORIES ==
    <<<<"laptops", "abcat0502000">>, <<"laptop", "abcat0502000">>,
      <<"desktop", "abcat0501000">>>>

IsCommon(key) == \E i \in DOMAIN COMMON_CATEGORIES : COMMON_CATEGORIES[i][1] = key

RECURSIVE RStripStar(_)
\* s.rstrip('*')
RStripStar(s) ==
    IF Len(s) > 0 /\ Ch(s, Len(s)) = "*" THEN RStripStar(SubSeq(s, 1, Len(s) - 1)) ELSE s

\* cache_key = name.lower().rstrip('*').strip()
cache_key(name) == Strip(RStripStar(Lower(name)))

\* The identifiers and names categories are looked up by.
CategoryIds == {"abcat0502000", "abcat0401000"}
CategoryNames == {"laptop", "Laptop*", " Camera*", "camera"}

\* cache_key, tabulated over the names
CacheKeyTable == [n \in CategoryNames |-> cache_key(n)]

\* CategorySearchResponse(total, categories, ...)
CategorySearchResponse(categories) == [total |-> Len(categories), categories |-> categories]

\* What /v1/categories(id=...) and /v1/categories may answer.
IdAnswers(category_id) ==
    IF category_id = PyNone THEN {<<"abcat0401000", "abcat0502000">>}
    ELSE {<<>>, <<category_id>>}

\* What /v1/categories(name=...) may answer.
NameAnswers == {<<>>, <<"abcat0401000">>}

Range(xs) == {xs[i] : i \in DOMAIN xs}

\* for cat in categories: self._category_cache[cat.id] = cat
CacheNothing(cache, categories) == cache
CacheCategories(cache, categories) == cache \cup Range(categories)

\* self._search_cache[key]
Cached(cache, key) == (CHOOSE e \in cache : e.key = key).response

\* A category lookup that got an upstream answer: its key, and whether the
\* answer held a category.
Lookup_(kind, key, hit) == [kind |-> kind, key |-> key, hit |-> hit]

\* A caller invokes get_categories(category_id) or search_categories(name).
CategoryCall ==
    /\ gpc = "idle"
    /\ nops < MaxOps
    /\ nops' = nops + 1
    /\ \/ \E id \in CategoryIds \cup {PyNone} :
             /\ op' = [name |-> "get_categories", category_id |-> id, search_name |-> PyNone]
             /\ gpc' = "get_categories"
       \/ \E n \in CategoryNames :
             /\ op' = [name |-> "search_categories", category_id |-> PyNone, search_name |-> n]
             /\ gpc' = "search_categories"
    /\ upstream_calls' = <<>>
    /\ acquisitions' = 0
    /\ op_result' = NoOutcome
    /\ ResetCompLocals
    /\ ResetStoreLocals
    /\ UNCHANGED cachevars
    /\ UNCHANGED notGate

\* search_categories: a common name is handed to get_categories with its
\* identifier; a cached key is answered from _search_cache; otherwise the
\* quota gate, the request, and both caches are filled from the answer.
SearchCategories ==
    /\ gpc = "search_categories"
    /\ LET key == CacheKeyTable[op.search_name] IN
       IF IsCommon(key)
       THEN /\ op' = [op EXCEPT !.category_id = PairValue(COMMON_CATEGORIES, key)]
            /\ gpc' = "get_categories"
            /\ UNCHANGED <<upstream_calls, acquisitions, op_result, cachevars>>
       ELSE IF \E e \in search_cache : e.key = key
       THEN /\ op_result' = Returned(Cached(search_cache, key))
            /\ gpc' = "idle"
            /\ UNCHANGED <<op, upstream_calls, acquisitions, cachevars>>
       ELSE /\ acquisitions' = acquisitions + 1
            /\ gpc' = "idle"
            /\ UNCHANGED op
            /\ \/ \E categories \in NameAnswers :
                     /\ upstream_calls' =
                           Append(upstream_calls, UpstreamCall("categories(name)", TRUE))
                     /\ category_cache' = CacheCategories(category_cache, categories)
                     /\ search_cache' =
                           search_cache \cup
                              {[key |-> key, response |-> CategorySearchResponse(categories)]}
                     /\ looked_up' = looked_up \cup {Lookup_("name", key, categories # <<>>)}
                     /\ op_result' = Returned(CategorySearchResponse(categories))
               \/ /\ upstream_calls' =
                        Append(upstream_calls, UpstreamCall("categories(name)", FALSE))
                  /\ op_result' = Returned(CategorySearchResponse(<<>>))
                  /\ UNCHANGED cachevars
    /\ UNCHANGED <<nops, compvars, storevars>>
    /\ UNCHANGED notGate

\* get_categories: a cached identifier is answered from _category_cache;
\* otherwise the quota gate, the request, and every category of the answer
\* is cached under its identifier.
GetCategories ==
    /\ gpc = "get_categories"
    /\ IF op.category_id # PyNone /\ op.category_id \in category_cache
       THEN /\ op_result' = Returned(CategorySearchResponse(<<op.category_id>>))
            /\ UNCHANGED <<upstream_calls, acquisitions, cachevars>>
       ELSE /\ acquisitions' = acquisitions + 1
            /\ \/ \E categories \in IdAnswers(op.category_id) :
                     /\ upstream_calls' =
                           Append(upstream_calls, UpstreamCall("categories(id)", TRUE))
                     /\ category_cache' = CacheCategories(category_cache, categories)
                     /\ looked_up' =
                           looked_up
                              \cup {Lookup_("id", op.category_id, categories # <<>>)}
                              \cup (IF op.name = "search_categories"
                                    THEN {Lookup_("name", CacheKeyTable[op.search_name],
                                                  categories # <<>>)}
                                    ELSE {})
                     /\ op_result' = Returned(CategorySearchResponse(categories))
                     /\ UNCHANGED search_cache
               \/ /\ upstream_calls' =
                        Append(upstream_calls, UpstreamCall("categories(id)", FALSE))
                  /\ op_result' = Returned(CategorySearchResponse(<<>>))
                  /\ UNCHANGED cachevars
    /\ gpc' = "idle"
    /\ UNCHANGED <<op, nops, compvars, storevars>>
    /\ UNCHANGED notGate

----------------------------------------------------------------------------
(* The chat endpoint and its in-memory conversation store: app/api/chat.py *)

ChatRequests == 1..NumChats
SessionIds == {"abc123", "def456"}
\* conversations holds no entry for the session
NoList == 0

\* {"role": role, "content": ...} of the request's exchange
Turn(role, request) == [role |-> role, request |-> request]
\* The two turns a session with stored history holds from an earlier exchange.
EarlierTurns == <<Turn("user", 0), Turn("assistant", 0)>>
\* The list object that holds a session's earlier history.
ListOf(session_id) == IF session_id = "abc123" THEN 1 ELSE 2

\* conversations.get(session_id, []): the stored list itself, or a new empty
\* list that nothing else refers to; then the request awaits process_message.
GetHistory(request, session_id) ==
    /\ tpc[request] = "new"
    /\ request_session' = [request_session EXCEPT ![request] = session_id]
    /\ IF conversations[session_id] # NoList
       THEN /\ held_history' =
                  [held_history EXCEPT ![request] = conversations[session_id]]
            /\ UNCHANGED heap
       ELSE /\ heap' = Append(heap, <<>>)
            /\ held_history' =
                  [held_history EXCEPT ![request] = Len(heap) + 1]
    /\ tpc' = [tpc EXCEPT ![request] = "awaiting"]
    /\ UNCHANGED conversations
    /\ UNCHANGED <<rlvars, chatvars, rankvars, gatevars, shopvars, peervars>>

\* process_message has returned: both turns are appended to the list the
\* request holds and that list is stored under the session_id.
StoreHistory(request) ==
    /\ tpc[request] = "awaiting"
    /\ heap' = [heap EXCEPT ![held_history[request]] =
                   @ \o <<Turn("user", request), Turn("assistant", request)>>]
    /\ conversations' =
          [conversations EXCEPT ![request_session[request]] = held_history[request]]
    /\ tpc' = [tpc EXCEPT ![request] = "done"]
    /\ UNCHANGED <<request_session, held_history>>
    /\ UNCHANGED <<rlvars, chatvars, rankvars, gatevars, shopvars, peervars>>

\* A server whose sessions have stored history or none, before any request.
TalkInit ==
    /\ heap = [i \in 1..Cardinality(SessionIds) |-> EarlierTurns]
    /\ conversations \in [SessionIds -> {NoList, 1, 2}]
    /\ \A s \in SessionIds : conversations[s] \in {NoList, ListOf(s)}
    /\ tpc = [r \in ChatRequests |-> "new"]
    /\ request_session = [r \in ChatRequests |-> PyNone]
    /\ held_history = [r \in ChatRequests |-> NoList]

\* No chat request reaches the endpoint.
TalkIdle ==
    /\ heap = <<>>
    /\ conversations = [s \in SessionIds |-> NoList]
    /\ tpc = [r \in ChatRequests |-> "new"]
    /\ request_session = [r \in ChatRequests |-> PyNone]
    /\ held_history = [r \in ChatRequests |-> NoList]

----------------------------------------------------------------------------
(* Cart, checkout sessions and orders                                      *)

UserIds == {"guest_a", "guest_b"}
ShopSkus == {"6525431", "6418599"}

\* The price the client sends with a product.
Price(sku) == IF sku = "6525431" THEN 10 ELSE 25

\* timedelta(hours=1), in minutes
SessionLifetime == 60

\* The steps of the shop's clock: up to the instant a session expires at,
\* and past it.
ShopDeltas == {SessionLifetime, SessionLifetime + 1}

\* CartItem(user_id, sku, name, price, image_url, quantity)
CartItem(sku, quantity) == [sku |-> sku, price |-> Price(sku), quantity |-> quantity]

\* OrderItem(order_id, sku, name, price, quantity, image_url)
OrderItem(cart_item) ==
    [sku |-> cart_item.sku, price |-> cart_item.price, quantity |-> cart_item.quantity]

RECURSIVE Total(_)
\* sum(item.price * item.quantity for item in cart_items)
Total(rows) ==
    IF rows = <<>> THEN 0 ELSE Head(rows).price * Head(rows).quantity + Total(Tail(rows))

RECURSIVE Units(_)
Units(rows) == IF rows = <<>> THEN 0 ELSE Head(rows).quantity + Units(Tail(rows))

\* The request just served.
Request(endpoint, user_id, session_id, status) ==
    [call |-> http.call + 1, endpoint |-> endpoint, user_id |-> user_id,
     session_id |-> session_id, status |-> status]

\* CartService.add_item with quantity 1: the row of the sku gets one more
\* unit, or a new row is added.
AddItem(user_id, sku) ==
    /\ http.call < MaxRequests
    /\ Units(cart_items[user_id]) < MaxQuantity
    /\ LET rows == cart_items[user_id]
           existing == {i \in DOMAIN rows : rows[i].sku = sku}
       IN cart_items' =
             [cart_items EXCEPT ![user_id] =
                 IF existing # {}
                 THEN [i \in DOMAIN rows |->
                          IF i \in existing
                          THEN [rows[i] EXCEPT !.quantity = @ + 1]
                          ELSE rows[i]]
                 ELSE Append(rows, CartItem(sku, 1))]
    /\ http' = Request("cart/add", user_id, 0, 200)
    /\ UNCHANGED <<checkout_sessions, orders, utcnow, nsessions, nticks>>
    /\ UNCHANGED notShop

\* CartService.clear_cart: every row of the user is deleted.
clear_cart(user_id) ==
    /\ http.call < MaxRequests
    /\ cart_items' = [cart_items EXCEPT ![user_id] = <<>>]
    /\ http' = Request("cart/clear", user_id, 0, 200)
    /\ UNCHANGED <<checkout_sessions, orders, utcnow, nsessions, nticks>>
    /\ UNCHANGED notShop

\* The quantities a cart request or an add_to_cart call of the model may
\* name: "quantity: int" of CartItemCreate and arguments.get("quantity", 1).
Asked == (0 - MaxAsked)..MaxAsked

\* POST /cart/add and the add_to_cart tool: CartService.add_item.
AddToCart(user_id, sku, quantity) ==
    /\ http.call < MaxRequests
    /\ cart_items' = [cart_items EXCEPT
                         ![user_id] = add_item(@, CartItem(sku, quantity))]
    /\ http' = Request("cart/add", user_id, 0, 200)
    /\ UNCHANGED <<checkout_sessions, orders, utcnow, nsessions, nticks>>
    /\ UNCHANGED notShop

\* The update_cart_quantity tool (and PUT /cart/items/{sku} for quantity >= 0):
\* CartService.update_quantity, which raises when the cart lacks the sku.
UpdateQuantity(user_id, sku, quantity) ==
    /\ http.call < MaxRequests
    /\ IF FirstRow(cart_items[user_id], sku) = 0
       THEN /\ http' = Request("cart/items", user_id, 0, 404)
            /\ UNCHANGED cart_items
       ELSE /\ cart_items' = [cart_items EXCEPT
                                ![user_id] = update_quantity(@, sku, quantity)]
            /\ http' = Request("cart/items", user_id, 0, 200)
    /\ UNCHANGED <<checkout_sessions, orders, utcnow, nsessions, nticks>>
    /\ UNCHANGED notShop

\* DELETE /cart/items/{sku} and the remove_from_cart tool: CartService.remove_item.
RemoveItem(user_id, sku) ==
    /\ http.call < MaxRequests
    /\ IF FirstRow(cart_items[user_id], sku) = 0
       THEN /\ http' = Request("cart/remove", user_id, 0, 404)
            /\ UNCHANGED cart_items
       ELSE /\ cart_items' = [cart_items EXCEPT ![user_id] = remove_item(@, sku)]
            /\ http' = Request("cart/remove", user_id, 0, 200)
    /\ UNCHANGED <<checkout_sessions, orders, utcnow, nsessions, nticks>>
    /\ UNCHANGED notShop

\* CheckoutService.create_session: refused for an empty cart; otherwise a
\* session with the cart's total that expires in one hour.
CreateSession(user_id) ==
    /\ http.call < MaxRequests
    /\ nsessions < MaxSessions
    /\ IF cart_items[user_id] = <<>>
       THEN /\ http' = Request("checkout/session", user_id, 0, 400)
            /\ UNCHANGED <<checkout_sessions, nsessions>>
       ELSE /\ checkout_sessions' =
                  checkout_sessions \cup
                     {[id |-> nsessions + 1,
                       user_id |-> user_id,
                       total_amount |-> Total(cart_items[user_id]),
                       shipping_name |-> PyNone,
                       shipping_address |-> PyNone,
                       expires_at |-> utcnow + SessionLifetime]}
            /\ nsessions' = nsessions + 1
            /\ http' = Request("checkout/session", user_id, nsessions + 1, 200)
    /\ UNCHANGED <<cart_items, orders, utcnow, nticks>>
    /\ UNCHANGED notShop

\* CheckoutService.get_session: the session of this id, unless it expired.
Expired(session) == session.expires_at < utcnow
get_session(session_id) ==
    {s \in checkout_sessions : s.id = session_id /\ ~Expired(s)}

\* CheckoutService.update_session: the shipping fields of a live session.
UpdateSession(session_id) ==
    /\ http.call < MaxRequests
    /\ LET found == get_session(session_id) IN
       IF found = {}
       THEN /\ http' = Request("checkout/update", PyNone, session_id, 404)
            /\ UNCHANGED checkout_sessions
       ELSE LET session == CHOOSE s \in found : TRUE IN
            /\ session.shipping_name = PyNone
            /\ checkout_sessions' =
                  (checkout_sessions \ {session}) \cup
                     {[session EXCEPT !.shipping_name = "John Doe",
                                      !.shipping_address = "123 Main St"]}
            /\ http' = Request("checkout/update", session.user_id, session_id, 200)
    /\ UNCHANGED <<cart_items, orders, utcnow, nsessions, nticks>>
    /\ UNCHANGED notShop

\* if not session.shipping_name or not session.shipping_address
ShippingMissing(session) ==
    session.shipping_name = PyNone \/ session.shipping_address = PyNone

\* db.query(CartItem).filter(CartItem.user_id == session.user_id).delete()
ClearNothing(items, user_id) == items
ClearCart(items, user_id) == [items EXCEPT ![user_id] = <<>>]

\* Order(order_number, user_id, shipping_..., total_amount, status) and its items
Order(order_number, session, rows) ==
    [order_number |-> order_number,
     user_id |-> session.user_id,
     shipping_name |-> session.shipping_name,
     shipping_address |-> session.shipping_address,
     total_amount |-> session.total_amount,
     status |-> "confirmed",
     items |-> [i \in DOMAIN rows |-> OrderItem(rows[i])]]

\* complete_checkout: 404 without a live session; 400 from the two checks
\* of create_order_from_session; otherwise one transaction adds the order
\* and its items, clears the cart and deletes the session. An order number
\* already taken makes the flush fail and the transaction is rolled back.
CompleteCheckout(session_id) ==
    /\ http.call < MaxRequests
    /\ LET found == get_session(session_id) IN
       IF found = {}
       THEN /\ http' = Request("checkout/complete", PyNone, session_id, 404)
            /\ UNCHANGED <<cart_items, checkout_sessions, orders>>
       ELSE LET session == CHOOSE s \in found : TRUE
                rows == cart_items[session.user_id]
            IN IF ShippingMissing(session) \/ rows = <<>>
               THEN /\ http' = Request("checkout/complete", session.user_id, session_id, 400)
                    /\ UNCHANGED <<cart_items, checkout_sessions, orders>>
               ELSE \E sequence \in 1..MaxSequence :
                       IF \E i \in DOMAIN orders : orders[i].order_number = sequence
                       THEN /\ http' = Request("checkout/complete", session.user_id,
                                               session_id, 500)
                            /\ UNCHANGED <<cart_items, checkout_sessions, orders>>
                       ELSE /\ orders' = Append(orders, Order(sequence, session, rows))
                            /\ cart_items' = ClearCart(cart_items, session.user_id)
                            /\ checkout_sessions' = checkout_sessions \ {session}
                            /\ http' = Request("checkout/complete", session.user_id,
                                               session_id, 200)
    /\ UNCHANGED <<utcnow, nsessions, nticks>>
    /\ UNCHANGED notShop

\* Time passes.
Tick(d) ==
    /\ nticks < MaxTicks
    /\ nticks' = nticks + 1
    /\ utcnow' = utcnow + d
    /\ UNCHANGED <<cart_items, checkout_sessions, orders, http, nsessions>>
    /\ UNCHANGED notShop

NoRequest == [call |-> 0, endpoint |-> "none", user_id |-> PyNone, session_id |-> 0,
              status |-> 0]

\* An order placed earlier in the day.
EarlierOrder ==
    Order(1, [user_id |-> "guest_b", shipping_name |-> "John Doe",
              shipping_address |-> "123 Main St", total_amount |-> 25],
          <<CartItem("6418599", 1)>>)

\* Empty carts, no session, and the order of the day so far.
ShopInit ==
    /\ cart_items = [u \in UserIds |-> <<>>]
    /\ checkout_sessions = {}
    /\ orders = <<EarlierOrder>>
    /\ utcnow = 0
    /\ http = NoRequest
    /\ nsessions = 0
    /\ nticks = 0

\* No request reaches the shop.
ShopIdle ==
    /\ cart_items = [u \in UserIds |-> <<>>]
    /\ checkout_sessions = {}
    /\ orders = <<>>
    /\ utcnow = 0
    /\ http = NoRequest
    /\ nsessions = 0
    /\ nticks = 0

GateInit ==
    /\ gpc = "idle"
    /\ op = NoOp
    /\ upstream_calls = <<>>
    /\ acquisitions = 0
    /\ op_result = NoOutcome
    /\ also_bought = <<>>
    /\ comp_results = <<>>
    /\ seen_skus = {}
    /\ fallback_query = ""
    /\ stores_list = <<>>
    /\ result_stores = <<>>
    /\ category_cache = {}
    /\ search_cache = {}
    /\ looked_up = {}
    /\ nops = 0

\* No gateway operation is invoked.
GateIdle ==
    /\ gpc = "off"
    /\ op = NoOp
    /\ upstream_calls = <<>>
    /\ acquisitions = 0
    /\ op_result = NoOutcome
    /\ also_bought = <<>>
    /\ comp_results = <<>>
    /\ seen_skus = {}
    /\ fallback_query = ""
    /\ stores_list = <<>>
    /\ result_stores = <<>>
    /\ category_cache = {}
    /\ search_cache = {}
    /\ looked_up = {}
    /\ nops = 0

\* Nothing outside the five components runs.
ExtIdle == PeerIdle /\ TalkIdle

QuotaInit ==
    /\ now = 0
    /\ recent_requests = <<>>
    /\ daily_requests = <<>>
    /\ daily_reset_time = 0 + DAY
    /\ lock = NoOne
    /\ waiters = <<>>
    /\ pc = [p \in Callers |-> "idle"]
    /\ wake = [p \in Callers |-> 0]
    /\ admitted = <<>>
    /\ appends = [p \in Callers |-> <<0, 0>>]
    /\ ncalls = 0
    /\ nadv = 0

\* The quota gate alone.
Init == QuotaInit /\ ChatIdle /\ RankIdle /\ GateIdle /\ ShopIdle /\ ExtIdle

Next ==
    \/ \E p \in Callers : Call(p)
    \/ \E p \in Callers : Enter(p)
    \/ \E p \in Callers : WakeDay(p)
    \/ \E p \in Callers : WakeMin(p)
    \/ GetStats
    \/ TimerFires
    \/ \E d \in Deltas : Advance(d)

Spec == Init /\ [][Next]_vars

\* The two catalog gateways of one server process, each behind its own
\* limiter: the chat service's client and the products endpoint's client.
FleetNext ==
    \/ \E p \in Callers : Call(p)
    \/ \E p \in Callers : Enter(p)
    \/ \E p \in Callers : WakeDay(p)
    \/ \E p \in Callers : WakeMin(p)
    \/ TimerFires
    \/ \E d \in Deltas : Advance(d)
    \/ PeerEnter
    \/ PeerWakeDay
    \/ PeerWakeMin
    \/ PeerTimerFires

FleetSpec == Init /\ [][FleetNext]_vars

\* One process_message invocation.
ChatStart ==
    ChatInit /\ toolset = "catalogue" /\ QuotaInit /\ RankIdle /\ GateIdle /\ ShopIdle
    /\ ExtIdle

ChatNext ==
    \/ ModelInitial
    \/ ExecFirst
    \/ EnterLoop
    \/ LoopTop
    \/ RoundExec
    \/ RoundModel
    \/ Reduce
    \/ Focus

ChatSpec == ChatStart /\ [][ChatNext]_vars

\* process_message is one coroutine: the event loop resumes it after every
\* await, and each model or catalogue call returns or raises.
ChatFairSpec == ChatSpec /\ WF_vars(ChatNext)

\* One process_message invocation with a model that manages the cart.
CartChatStart ==
    ChatInit /\ toolset = "cart" /\ QuotaInit /\ RankIdle /\ GateIdle /\ ShopIdle
    /\ ExtIdle

CartChatSpec == CartChatStart /\ [][ChatNext]_vars

\* One search_products call and a second pass over its output.
RankStart == RankInit /\ QuotaInit /\ ChatIdle /\ GateIdle /\ ShopIdle /\ ExtIdle

RankNext ==
    \/ FilterAndRank
    \/ FilterAndRankAgain

RankSpec == RankStart /\ [][RankNext]_vars

\* Calls on one BestBuyAPIClient, one after the other.
GateStart == GateInit /\ QuotaInit /\ ChatIdle /\ RankIdle /\ ShopIdle /\ ExtIdle

GateNext ==
    \/ CompCall
    \/ CompAlsoBought
    \/ CompSearch
    \/ StoreCall
    \/ StoreLocate
    \/ StoreAvailability
    \/ OneRequestCall
    \/ OneRequest
    \/ CategoryCall
    \/ SearchCategories
    \/ GetCategories

GateSpec == GateStart /\ [][GateNext]_vars

\* Requests to the cart and checkout endpoints, one after the other.
ShopStart == ShopInit /\ QuotaInit /\ ChatIdle /\ RankIdle /\ GateIdle /\ ExtIdle

ShopNext ==
    \/ \E u \in UserIds, sku \in ShopSkus : AddItem(u, sku)
    \/ \E u \in UserIds : clear_cart(u)
    \/ \E u \in UserIds : CreateSession(u)
    \/ \E id \in 1..MaxSessions : UpdateSession(id)
    \/ \E id \in 1..MaxSessions : CompleteCheckout(id)
    \/ \E d \in ShopDeltas : Tick(d)

ShopSpec == ShopStart /\ [][ShopNext]_vars

\* The cart operations alone, with the quantities a caller may name.
CartNext ==
    \/ \E u \in UserIds, sku \in ShopSkus, quantity \in Asked : AddToCart(u, sku, quantity)
    \/ \E u \in UserIds, sku \in ShopSkus, quantity \in Asked :
          UpdateQuantity(u, sku, quantity)
    \/ \E u \in UserIds, sku \in ShopSkus : RemoveItem(u, sku)
    \/ \E u \in UserIds : clear_cart(u)

CartSpec == ShopStart /\ [][CartNext]_vars

\* Chat requests on the endpoint; each runs from its entry to the await of
\* process_message and from there to its end without yielding.
TalkStart ==
    TalkInit /\ QuotaInit /\ ChatIdle /\ RankIdle /\ GateIdle /\ ShopIdle /\ PeerIdle

TalkNext ==
    \/ \E r \in ChatRequests, s \in SessionIds : GetHistory(r, s)
    \/ \E r \in ChatRequests : StoreHistory(r)

TalkSpec == TalkStart /\ [][TalkNext]_vars

\* The event loop resumes every runnable coroutine and timers do fire.
FairSpec ==
    /\ Spec
    /\ WF_vars(TimerFires)
    /\ \A p \in Callers :
          WF_vars(Enter(p)) /\ WF_vars(WakeDay(p)) /\ WF_vars(WakeMin(p))

----------------------------------------------------------------------------
(* Properties of the Quota Gate                                            *)

\* Number of recorded admissions in the half-open interval [lo, lo + len).
WindowCount(lo, len) ==
    Cardinality({i \in DOMAIN admitted : admitted[i] >= lo /\ admitted[i] < lo + len})

Sleeping == {p \in Callers : pc[p] \in {"sleep_day", "sleep_min"}}

IsSuffix(s, t) ==
    /\ Len(s) <= Len(t)
    /\ \A i \in 1..Len(s) : s[i] = t[Len(t) - Len(s) + i]

C2_Rolling24h ==
    \A i \in DOMAIN admitted : WindowCount(admitted[i], DAY) <= requests_per_day

\* C2 (amended): the admissions recorded since the last daily reset are
\* the daily queue, and they never number more than requests_per_day.
C2_DailyEpochQuota ==
    /\ Len(daily_requests) <= requests_per_day
    /\ IsSuffix(daily_requests, admitted)

\* The daily limit was reached, the caller slept to the reset instant and
\* was admitted into the emptied daily queue.
C2_Witness ==
    /\ Len(admitted) = requests_per_day + 1
    /\ Len(daily_requests) = 1
    /\ admitted[Len(admitted)] >= DAY

\* C3: callers of acquire() are serialized: at most one caller is between
\* its read of the queues and its append (a suspended caller keeps the
\* lock), and the short-window quota holds in every interleaving.
C3_Serialized ==
    /\ Cardinality(Sleeping) <= 1
    /\ \A p \in Sleeping : lock = p
    /\ (Sleeping = {}) => (lock = NoOne)
    /\ \A i \in DOMAIN admitted : WindowCount(admitted[i], WINDOW) <= requests_per_minute

\* One caller is suspended inside acquire() while another waits for the lock.
C3_Witness ==
    \E p, q \in Callers : pc[p] = "sleep_min" /\ pc[q] = "waiting"

\* C4: acquire() never rejects: no call ends in an error, and every call
\* eventually returns having appended exactly one timestamp to each queue.
C4_NeverRejects ==
    /\ [](\A p \in Callers : pc[p] # "error")
    /\ [](\A p \in Callers : pc[p] = "idle" => appends[p] \in {<<0, 0>>, <<1, 1>>})
    /\ \A p \in Callers :
          (pc[p] = "waiting") ~> (pc[p] = "idle" /\ appends[p] = <<1, 1>>)

\* A call that had to sit out the daily limit has returned.
C4_Witness ==
    /\ Len(admitted) > requests_per_day
    /\ \E p \in Callers : pc[p] = "idle" /\ appends[p] = <<1, 1>>

----------------------------------------------------------------------------
(* Properties of the Tool Orchestrator and the Presentation Reducer        *)

\* Indices of all_products that hold the first occurrence of an identifier.
FirstSeen ==
    {i \in DOMAIN all_products :
        /\ SkuStr(all_products[i]) # ""
        /\ \A j \in 1..(i - 1) : SkuStr(all_products[j]) # SkuStr(all_products[i])}

\* C5: however long the model keeps requesting tools, process_message makes
\* at most MAX_ROUNDS feedback rounds (1 + MAX_ROUNDS model calls), returns,
\* and the message it returns is a text, never None.
C5_TerminatesInBudget ==
    /\ [](rounds <= MAX_ROUNDS /\ model_calls <= 1 + MAX_ROUNDS)
    /\ [](cpc = "done" => response.message \in AllTexts /\ response.message # PyNone)
    /\ [](always_tools /\ cpc = "done" /\ response.kind = "ok"
             /\ response.message # LoopErrorText
          => rounds = MAX_ROUNDS /\ model_calls = 1 + MAX_ROUNDS)
    /\ <>(cpc = "done")

\* Every response asked for more tools and the call returned after the
\* last round with requests still pending.
C5_Witness ==
    /\ cpc = "done"
    /\ always_tools
    /\ response.kind = "ok"
    /\ rounds = MAX_ROUNDS
    /\ pending_calls # <<>>

\* C6: the display list built before SKU focus has at most DisplayLimit (8)
\* entries, no identifier twice, and its k-th entry is the first occurrence
\* of the k-th identifier first seen in the accumulated list.
C6_DedupedDisplay ==
    cpc = "focus" =>
        /\ Len(display_products) <= DisplayLimit
        /\ \A i, j \in DOMAIN display_products :
              i # j => SkuStr(display_products[i]) # SkuStr(display_products[j])
        /\ \A k \in DOMAIN display_products :
              \E i \in FirstSeen :
                 /\ display_products[k] = all_products[i]
                 /\ Cardinality({h \in FirstSeen : h < i}) = k - 1

\* The accumulated list repeats an identifier in two different dicts and
\* names more than DisplayLimit identifiers; the display list is full.
C6_Witness ==
    /\ cpc = "focus"
    /\ Len(display_products) = DisplayLimit
    /\ Cardinality(FirstSeen) > DisplayLimit
    /\ \E i, j \in DOMAIN all_products :
          /\ i < j
          /\ all_products[i].sku = all_products[j].sku
          /\ all_products[i] # all_products[j]

\* The returned text names an identifier exactly once.
OneMention ==
    /\ cpc = "done"
    /\ response.kind = "ok"
    /\ Len(sku_matches(response.message)) = 1

----------------------------------------------------------------------------
(* Properties of the Relevance Engine                                      *)

\* The catalogue listings whose text matches an irrelevant-type phrase.
IrrelevantListings == {p \in Catalogue : is_irrelevant_product(p)}

\* The listings of the upstream page that are not irrelevant-type.
Remaining == SelectSeq(raw_result.products,
                       LAMBDA p : RankTable[query][p].stage # "irrelevant")

\* The case of the fallback rule: a non-empty page, at most half of it
\* irrelevant-type, every other listing dropped by the "score < 0" test.
ThresholdEmptiesPage ==
    /\ raw_result.products # <<>>
    /\ 2 * Len(irrelevant_filtered(query, raw_result.products)) <= Len(raw_result.products)
    /\ \A i \in DOMAIN Remaining : RankTable[query][Remaining[i]].stage = "threshold"

\* C8: given a non-empty raw result set in which at most 50% of the listings
\* are irrelevant-type and every remaining listing would be removed by the
\* score threshold, _filter_and_rank_results returns a non-empty list.
C8_FallbackNonEmpty ==
    (rpc = "ranked" /\ ThresholdEmptiesPage) => ranked.products # <<>>

\* C9: _filter_and_rank_results is idempotent: applied to its own output with
\* the same query and the same max_results it returns the same products in
\* the same order, for every raw result set and query.
C9_Idempotent ==
    rpc = "reranked" =>
        /\ reranked.products = ranked.products
        /\ reranked.total = ranked.total
        /\ reranked.to = ranked.to

\* The second pass ran on a first output that is not the raw page: listings
\* were dropped, the rest reordered, and two distinct listings tie on score.
C9_Witness ==
    /\ rpc = "reranked"
    /\ Len(ranked.products) = 2
    /\ Len(raw_result.products) = 3
    /\ ranked.products # Take(raw_result.products, 2)
    /\ ranked.products[1] # ranked.products[2]
    /\ RankTable[query][ranked.products[1]].score = RankTable[query][ranked.products[2]].score
    /\ reranked.products = ranked.products

\* C10: for every query and every max_results, a listing whose text matches an
\* irrelevant-type phrase (for example one named exactly "$50 Gift Card")
\* never appears in the filtered search output, on the normal path and on the
\* fallback path alike.
C10_NoIrrelevantOutput ==
    rpc \in {"ranked", "reranked"} =>
        \A i \in DOMAIN ranked.products :
            /\ ranked.products[i].name # "$50 Gift Card"
            /\ ranked.products[i] \notin IrrelevantListings

\* A page holding the gift card was ranked and other listings came out.
C10_Witness ==
    /\ rpc = "ranked"
    /\ \E i \in DOMAIN raw_result.products : raw_result.products[i].name = "$50 Gift Card"
    /\ ranked.products # <<>>
    /\ Len(ranked.products) < Len(raw_result.products)

\* The catalogue listings whose name contains a type word that conflicts
\* with the type detected from the query.
ConflictingListings ==
    [q \in Queries |->
        {p \in Catalogue :
            /\ HasKey(conflicts, detected_product_type(Lower(q)))
            /\ \E c \in Lookup(conflicts, detected_product_type(Lower(q))) :
                  Contains(c, Lower(p.name))}]

\* C11: when the product type detected from the query has an entry in the
\* conflict table, no listing whose name contains one of that type's
\* conflicting type words is in the filtered output; in particular query
\* "iPhone 15" excludes a listing named "Apple iPad 10th Gen".
C11_NoConflictingType ==
    rpc \in {"ranked", "reranked"} =>
        \A i \in DOMAIN ranked.products :
            /\ ranked.products[i] \notin ConflictingListings[query]
            /\ query = "iPhone 15" => ranked.products[i].name # "Apple iPad 10th Gen"

\* "iPhone 15" was ranked over a page holding the iPad listing, and other
\* listings of the page came out.
C11_Witness ==
    /\ rpc = "ranked"
    /\ query = "iPhone 15"
    /\ \E i \in DOMAIN raw_result.products :
          raw_result.products[i].name = "Apple iPad 10th Gen"
    /\ ranked.products # <<>>

----------------------------------------------------------------------------
(* Properties of the Catalog Gateway                                       *)

\* How many requests of this invocation went to an endpoint.
CallsTo(endpoint) ==
    Cardinality({i \in DOMAIN upstream_calls : upstream_calls[i].endpoint = endpoint})

\* get_complementary_products has returned.
CompDone ==
    gpc = "idle" /\ op.name = "get_complementary_products" /\ op_result.kind = "returned"

\* The call budget and the shape of the merged output.
CompBudgetAndOutput ==
    /\ CallsTo("alsoBought") = 1
    /\ CallsTo("search") <= 1
    /\ Len(upstream_calls) = CallsTo("alsoBought") + CallsTo("search")
    /\ Len(op_result.value) <= 6
    /\ \A i, j \in DOMAIN op_result.value :
          op_result.value[i].sku = op_result.value[j].sku => i = j

\* The identifiers alsoBought yielded, the anchor product's own left out.
DistinctAlsoBought == {SkuStr(also_bought[i]) : i \in DOMAIN also_bought} \ {op.sku}

StoreDone ==
    gpc = "idle" /\ op.name = "get_store_availability" /\ op_result.kind = "returned"

\* C13, for requests whose upstream calls all succeed and whose postal code
\* has a store in the radius: a store-availability request with a valid postal code issues exactly
\* 2 upstream calls (one store-locator call and one per-store availability
\* call), for every requested store count max_stores >= 1.
C13_ExactlyTwoCalls ==
    (StoreDone /\ stores_list # <<>> /\ \A i \in DOMAIN upstream_calls : upstream_calls[i].ok) =>
        /\ Len(upstream_calls) = 2
        /\ CallsTo("stores") = 1
        /\ CallsTo("storeAvailability") = 1

----------------------------------------------------------------------------
(* Model-service failure                                                   *)

\* C14: if a language-model call fails, the initial one or a follow-up,
\* process_message returns an error outcome, not a normal response with an
\* assistant message and products.
C14_ModelFailureIsTerminal ==
    (cpc = "done" /\ model_failed) => response.kind = "error"

----------------------------------------------------------------------------
(* The tool loop: stopping, results fed back, conversation carried         *)

\* The latest model response carried non-empty text.
LastResponseHasText == cpc \in {"exec", "loop", "round"} /\ ai_message # ""

\* execute_function is not called and gemini_client.chat is not called.
NothingFurther == function_results' = function_results /\ model_calls' = model_calls

\* C18 (as claimed): once a model response requested no tools or carried
\* non-empty text, no further tool is executed and no further model call is
\* made for the message.
C18_StopsOnTextOrNoTools ==
    [][(cpc # "start" /\ (~always_tools \/ LastResponseHasText)) => NothingFurther]_vars

\* C18 (amended): once a model response requested no tools, whatever its
\* text, no further tool is executed and no further model call is made.
C18_StopsOnNoTools ==
    [][(cpc # "start" /\ ~always_tools) => NothingFurther]_vars

\* A first response with text and tool requests did not stop the loop; a
\* follow-up response without tool requests did, before the round budget.
C18_Witness ==
    /\ cpc = "done"
    /\ ~always_tools
    /\ ~model_failed
    /\ model_calls \in 2..MAX_ROUNDS
    /\ updated_history # <<>>
    /\ updated_history[Len(updated_history)].content # ""

\* C19: each result put into a round's function responses carries the name
\* of the request it answers and is the result execute_function gave for
\* that very request: in the first round the one stored at the request's
\* position by the loop before, in later rounds the one just obtained.
C19_ResultAnswersItsRequest ==
    [][(cpc = "round" /\ idx <= Len(pending_calls)) =>
         LET call == pending_calls[idx]
             fed == round_results'[idx]
             own == IF rounds = 1
                    THEN function_results[idx].result
                    ELSE function_results'[Len(function_results')].result
         IN /\ fed.name = call.name
            /\ fed.response = own]_vars

RECURSIVE InOrder(_, _)
\* The entries of want occur in have, in this order.
InOrder(want, have) ==
    IF want = <<>> THEN TRUE
    ELSE IF have = <<>> THEN FALSE
    ELSE IF Head(want) = Head(have) THEN InOrder(Tail(want), Tail(have))
    ELSE InOrder(want, Tail(have))

RECURSIVE EarlierRounds(_)
\* For each logged round: the assistant's tool requests, then the results.
EarlierRounds(log) ==
    IF log = <<>> THEN <<>>
    ELSE <<Content("model", "", Head(log).tool_requests, <<>>),
           Content("user", "", <<>>, Head(log).tool_results)>>
         \o EarlierRounds(Tail(log))

\* C20: a follow-up model call carries, in order, the prior history, the
\* user message, each earlier round's tool requests followed by its
\* results, and last the current round's results.
C20_CarriesAccumulatedConversation ==
    [][(cpc = "round" /\ idx > Len(pending_calls)) =>
         /\ InOrder(Contents(PriorHistory, <<>>, UserMessage)
                        \o EarlierRounds(rounds_log)
                        \o <<Content("user", "", <<>>, round_results)>>,
                    contents')
         /\ contents'[Len(contents')] = Content("user", "", <<>>, round_results)]_vars

----------------------------------------------------------------------------
(* Upstream failures                                                       *)

\* The operations that return a list or a page.
ListOperations ==
    {"search_products", "advanced_search", "get_recommendations", "get_similar_products",
     "get_also_bought", "get_store_availability", "get_categories", "search_categories"}

\* The lookups of one item.
SingleItemOperations == {"search_by_upc", "get_product_by_sku"}

\* The empty result of a list operation.
DefaultResult(name) ==
    IF name \in {"search_products", "advanced_search"} THEN ProductSearchResponse(<<>>)
    ELSE IF name = "get_store_availability" THEN StoreSearchResponse(<<>>)
    ELSE IF name \in {"get_categories", "search_categories"} THEN CategorySearchResponse(<<>>)
    ELSE <<>>

\* The operation is over and its first request had failed.
FirstRequestFailed ==
    /\ gpc = "idle"
    /\ op_result.kind # "none"
    /\ upstream_calls # <<>>
    /\ ~upstream_calls[1].ok

\* C15: when the upstream request fails, every list-returning operation
\* returns its empty result instead of raising; only the single-item
\* lookups raise.
C15_OnlySingleItemLookupsRaise ==
    /\ (FirstRequestFailed /\ op.name \in ListOperations) =>
          /\ op_result.kind = "returned"
          /\ op_result.value = DefaultResult(op.name)
    /\ op_result.kind = "raised" => op.name \in SingleItemOperations

----------------------------------------------------------------------------
(* The category caches                                                     *)

\* The key of the category lookup in progress: the identifier, or the
\* normalized name.
LookupKind == IF op.name = "get_categories" THEN "id" ELSE "name"
LookupKey ==
    IF op.name = "get_categories" THEN op.category_id ELSE CacheKeyTable[op.search_name]

\* This step ends a category lookup by an identifier or by a name.
LookupEnds ==
    /\ gpc \in {"get_categories", "search_categories"}
    /\ gpc' = "idle"
    /\ LookupKey # PyNone

\* An earlier lookup with the same key got an upstream answer.
AnsweredBefore ==
    \E l \in looked_up : l.kind = LookupKind /\ l.key = LookupKey

\* An earlier lookup with the same key got an upstream answer that the
\* client keeps: any answer for a name outside COMMON_CATEGORIES, an answer
\* holding the category otherwise.
KeptBefore ==
    \E l \in looked_up :
       /\ l.kind = LookupKind
       /\ l.key = LookupKey
       /\ l.hit \/ (l.kind = "name" /\ ~IsCommon(l.key))

NoUpstreamWork == upstream_calls' = <<>> /\ acquisitions' = 0

NothingEvicted == category_cache \subseteq category_cache' /\ search_cache \subseteq search_cache'

----------------------------------------------------------------------------
(* Completing a checkout                                                   *)

\* This step serves a complete_checkout request.
Completes == http'.call # http.call /\ http'.endpoint = "checkout/complete"

\* The session the request names, if it exists and has not expired.
LiveSession == {s \in checkout_sessions : s.id = http'.session_id /\ s.expires_at >= utcnow}

NothingHappens ==
    /\ cart_items' = cart_items
    /\ checkout_sessions' = checkout_sessions
    /\ orders' = orders

\* One more order whose items copy the user's cart rows, the user's cart
\* emptied and nobody else's touched, the session deleted.
AllThreeHappen(session) ==
    /\ Len(orders') = Len(orders) + 1
    /\ SubSeq(orders', 1, Len(orders)) = orders
    /\ orders'[Len(orders')].user_id = session.user_id
    /\ orders'[Len(orders')].items =
          [i \in DOMAIN cart_items[session.user_id] |->
              [sku |-> cart_items[session.user_id][i].sku,
               price |-> cart_items[session.user_id][i].price,
               quantity |-> cart_items[session.user_id][i].quantity]]
    /\ cart_items' = [cart_items EXCEPT ![session.user_id] = <<>>]
    /\ checkout_sessions' = checkout_sessions \ {session}

\* C17: completing a checkout creates the order from the cart rows, empties
\* the cart and deletes the session, all three or none; when the session is
\* missing or expired, lacks the shipping name or address, or the cart is
\* empty, the request fails and cart, sessions and orders stay as they were.
C17_CompleteIsAllOrNothing ==
    [][Completes =>
         IF \/ LiveSession = {}
            \/ \E s \in LiveSession :
                  \/ s.shipping_name = PyNone
                  \/ s.shipping_address = PyNone
                  \/ cart_items[s.user_id] = <<>>
         THEN NothingHappens /\ http'.status # 200
         ELSE \/ http'.status = 200 /\ \E s \in LiveSession : AllThreeHappen(s)
              \/ http'.status # 200 /\ NothingHappens]_vars

\* A checkout of a two-row cart was completed while the other user had a
\* cart of their own.
C17_Witness ==
    /\ http.endpoint = "checkout/complete"
    /\ http.status = 200
    /\ orders # <<>>
    /\ orders[Len(orders)] # EarlierOrder
    /\ Len(orders[Len(orders)].items) = 2
    /\ cart_items[orders[Len(orders)].user_id] = <<>>
    /\ \E u \in UserIds : cart_items[u] # <<>>
    /\ \A s \in checkout_sessions : s.id # http.session_id

RECURSIVE ReturnedBy(_)
\* The products of the results of successful executions, in execution order
\* and in result order within each.
ReturnedBy(results) ==
    IF results = <<>> THEN <<>>
    ELSE (IF Head(results).result.success THEN Head(results).result.products ELSE <<>>)
            \o ReturnedBy(Tail(results))

\* C21: once the first model response has been taken, the accumulated list
\* is the seed followed by every product a successfully executed tool
\* returned, in execution order and in result order within each tool.
C21_EveryReturnedProductAccumulated ==
    (model_calls > 0 /\ response.kind # "error") =>
        all_products = proactive_products \o ReturnedBy(function_results)

\* The step executes a tool request: the request, and the result it stores.
Executes == idx' = idx + 1 /\ Len(function_results') = Len(function_results) + 1
Executed == IF cpc = "exec" THEN function_calls[idx] ELSE pending_calls[idx]
Stored == function_results'[Len(function_results')].result

RECURSIVE InCart(_, _)
\* The units of a sku the rows hold.
InCart(rows, sku) ==
    IF rows = <<>> THEN 0
    ELSE (IF Head(rows).sku = sku THEN Head(rows).quantity ELSE 0) + InCart(Tail(rows), sku)

\* What the request asked for has happened to the user's cart, and to
\* nothing else.
InEffect(call) ==
    /\ \A u \in DOMAIN cart_items : u # ChatUser => cart_items'[u] = cart_items[u]
    /\ LET before == InCart(cart_items[ChatUser], call.arguments)
           after == InCart(cart_items'[ChatUser], call.arguments)
       IN IF call.name = "add_to_cart" THEN after = before + call.quantity
          ELSE IF call.name = "update_cart_quantity" THEN after = call.quantity
          ELSE after = 0

\* C22: a cart tool that succeeds changes the user's cart at once, and no
\* other step of the message touches the cart: not a tool execution that
\* fails, not a model call that fails or succeeds, not the return; so the
\* mutation is in effect when process_message returns.
C22_CartMutationsStay ==
    [][IF Executes /\ Executed.name \in CartTools /\ Stored = CartDone
       THEN InEffect(Executed)
       ELSE cart_items' = cart_items]_vars

\* add_to_cart succeeded, a later tool execution failed, a later model call
\* failed, and the message returned with the added row in the cart.
C22_Witness ==
    /\ cpc = "done"
    /\ model_failed
    /\ \E i, j \in DOMAIN function_results :
          /\ i < j
          /\ function_results[i] = [function |-> "add_to_cart", result |-> CartDone]
          /\ function_results[j].result = ErrorResult
    /\ cart_items[ChatUser] = <<[sku |-> "6525431", price |-> ToolPrice, quantity |-> 2]>>

\* The step changes the rate window state.
WindowStateChanges ==
    \/ recent_requests' # recent_requests
    \/ daily_requests' # daily_requests
    \/ daily_reset_time' # daily_reset_time

\* The step is one of acquire() by a caller that holds the lock: it held it
\* before the step, or obtains it in the step.
InCriticalSection ==
    \E p \in Callers :
        /\ pc'[p] # pc[p]
        /\ lock = p \/ (LockFree /\ pc[p] = "waiting")

\* C23: both timestamp queues and the daily reset instant change only in
\* steps of the caller that holds the acquire lock; no operation changes
\* them outside the critical section.
C23_MutatedOnlyUnderLock ==
    [][WindowStateChanges => InCriticalSection]_vars

\* The distinct identifiers the returned text names.
DistinctMentions == Distinct(sku_matches(response.message))

\* C24: the returned list differs from the de-duplicated capped list only
\* when the final text names exactly one or exactly two distinct
\* identifiers; with none, or with three or more, the de-duplicated capped
\* list is returned as is.
C24_FocusOnlyOnOneOrTwo ==
    (cpc = "done" /\ response.kind = "ok") =>
        (Len(DistinctMentions) \notin {1, 2} => response.products = deduped_display)

\* The listings of the upstream page that passed every filter and reached
\* the threshold test.
ReachedThreshold ==
    {raw_result.products[i] : i \in DOMAIN raw_result.products} \cap
        {p \in Catalogue : RankTable[query][p].stage \in {"threshold", "scored"}}

\* C25: a listing that passed the filters is dropped by the threshold
\* exactly when the sum of all its score components is negative; a listing
\* whose total score is at least 0 is never dropped by the threshold.
C25_ThresholdOnTotalScore ==
    rpc \in {"ranked", "reranked"} =>
        \A p \in ReachedThreshold :
            (RankTable[query][p].stage = "threshold") <=> (RankTable[query][p].score < 0)

RECURSIVE Flatten(_)
\* The lists of a sequence, one after the other.
Flatten(lists) == IF lists = <<>> THEN <<>> ELSE Head(lists) \o Flatten(Tail(lists))

\* C26: the executions of a message are, in order, the tool requests the
\* model emitted, each executed at most once: the requests of the first
\* response before the loop and not again inside it, then those of each
\* later response in the round that follows it; none is replayed or carried
\* into a later round.
C26_ExecutedAtMostOnce ==
    /\ Len(function_results) <= Len(Flatten(emitted))
    /\ \A i \in DOMAIN function_results :
          function_results[i].function = Flatten(emitted)[i].name

\* Three rounds ran, the requests of the first three responses were each
\* executed once and those of the fourth were left unexecuted.
C26_Witness ==
    /\ cpc = "done"
    /\ rounds = MAX_ROUNDS
    /\ Len(emitted) = 1 + MAX_ROUNDS
    /\ emitted[Len(emitted)] # <<>>
    /\ Len(function_results) = Len(Flatten(SubSeq(emitted, 1, MAX_ROUNDS)))
    /\ \E i, j \in DOMAIN emitted : i < j /\ emitted[i] = emitted[j]

\* Number of upstream calls of both gateways in the interval [lo, lo + len).
FleetWindowCount(lo, len) ==
    WindowCount(lo, len)
    + Cardinality({i \in DOMAIN peer_admitted :
                     peer_admitted[i] >= lo /\ peer_admitted[i] < lo + len})

\* C27 (as claimed): over all catalog gateways of the process, no rolling
\* window of WINDOW ticks (60 s) holds more upstream calls than the
\* configured per-minute limit.
C27_FleetShortWindowQuota ==
    /\ \A i \in DOMAIN admitted :
          FleetWindowCount(admitted[i], WINDOW) <= requests_per_minute
    /\ \A i \in DOMAIN peer_admitted :
          FleetWindowCount(peer_admitted[i], WINDOW) <= requests_per_minute

\* What the code keeps: the limit holds for each gateway on its own.
C27_EachGatewayWithinQuota ==
    \A i \in DOMAIN peer_admitted :
       Cardinality({j \in DOMAIN peer_admitted :
                      peer_admitted[j] >= peer_admitted[i]
                      /\ peer_admitted[j] < peer_admitted[i] + WINDOW})
          <= requests_per_minute

\* C28 (as claimed): the total_amount of every order is the sum of price
\* times quantity over the order's items, whatever happened to the cart
\* between creating the checkout session and completing it.
C28_OrderTotalMatchesItems ==
    \A i \in DOMAIN orders : orders[i].total_amount = Total(orders[i].items)

\* What the code keeps: an order carries the total its session was created with.
C28_OrderTotalIsSessionTotal ==
    [][\A id \in 1..MaxSessions :
          (Completes /\ http'.session_id = id /\ http'.status = 200) =>
             \E s \in checkout_sessions :
                s.id = id /\ orders'[Len(orders')].total_amount = s.total_amount]_vars

\* At most one row of a cart names a given sku.
OneRowPerSku ==
    \A u \in UserIds : \A i, j \in DOMAIN cart_items[u] :
       cart_items[u][i].sku = cart_items[u][j].sku => i = j

\* C29 (as claimed): after any sequence of add_item, update_quantity,
\* remove_item and clear_cart, whatever integer quantities they name, a cart
\* holds at most one row per sku and every row has quantity at least 1.
C29_OneRowPerSkuQuantityPositive ==
    /\ OneRowPerSku
    /\ \A u \in UserIds : \A i \in DOMAIN cart_items[u] : cart_items[u][i].quantity >= 1

\* What the code keeps: one row per sku.
C29_OneRowPerSku == OneRowPerSku

\* The turns stored for a session.
StoredTurns(session_id) ==
    IF conversations[session_id] = NoList THEN <<>> ELSE heap[conversations[session_id]]

\* Both turns of the request are in the history stored for its session.
TurnsKept(request) ==
    \A role \in {"user", "assistant"} :
       \E i \in DOMAIN StoredTurns(request_session[request]) :
          StoredTurns(request_session[request])[i] = Turn(role, request)

\* C30 (as claimed): once the chat requests of a session have completed, the
\* turn pairs of all of them are in the session's stored history, whether
\* they overlapped or not and whether or not the session had stored history.
C30_NoTurnLost ==
    \A r \in ChatRequests : tpc[r] = "done" => TurnsKept(r)

\* What the code keeps: no turn is lost in a session that began with stored
\* history, where every request appends to the one stored list.
C30_NoTurnLostWithStoredHistory ==
    \A r \in ChatRequests :
       (tpc[r] = "done" /\ conversations[request_session[r]] = ListOf(request_session[r]))
          => TurnsKept(r)
====
